---- MODULE Spec2Model ----
(***************************************************************************)
(* GVNS engine and bounded non-dominated archive of the EVRP solver        *)
(* (src/src/EVRP/GVNS.py).                                                 *)
(*                                                                         *)
(* A Solution is seen by the archive and by the engine through four cached *)
(* fields only: total_distance, total_cost, num_vehicles_used and          *)
(* is_feasible (src/src/EVRP/solution.py:10-13).  It is modelled as the    *)
(* record [d, c, v, f].  Two records that differ in v only are two         *)
(* different solutions with the same (total_distance, total_cost) tuple.   *)
(***************************************************************************)
EXTENDS Integers, Sequences, FiniteSets, TLC

(***************************************************************************)
(* Bounds of the model.                                                    *)
(***************************************************************************)
\* most solutions (archive list plus batch) handed to a first call of
\* update_archive
MaxInput == 2
\* longest batch handed to a later call, whose archive is the returned one
MaxBatch == 1
\* largest archive capacity na
MaxNA == 2
\* largest ns (local-search rounds per call of GVNS.local_search)
MaxNS == 1
\* largest ls_max_iter
MaxLsIter == 2
\* largest max_evaluations
MaxEval == 2
\* longest chain of perturbation operators
MaxPert == 2
\* longest chain of local-search operators
MaxLS == 2
\* longest initial population
MaxPop == 2
\* most restarts of the operator chain (an operator reporting an improvement
\* with iterate set) within one call of _improve_solution
MaxRestarts == 1
\* longest node sequence of a route handed to an evaluator
MaxRouteLen == 4
\* most stops between the depots of a route of a solution handed to
\* Solution.evaluate
MaxStops == 2
\* most routes of such a solution
MaxRoutes == 2

\* levels of an objective value: three, so that chains of three mutually
\* non-dominated solutions and the (100,50),(90,60),(80,40) scenario exist
Objective == {0, 1, 2}
\* values of num_vehicles_used
Vehicles == {1, 2}

FeasibleSolutions ==
    [d : Objective, c : Objective, v : Vehicles, f : {TRUE}]

\* infeasible solutions: cached objectives at both ends of the scale
InfeasibleSolutions ==
    {[d |-> 0, c |-> 0, v |-> 1, f |-> FALSE],
     [d |-> 1, c |-> 1, v |-> 2, f |-> FALSE],
     [d |-> 2, c |-> 2, v |-> 1, f |-> FALSE]}

Solutions == FeasibleSolutions \cup InfeasibleSolutions

SeqUpTo(S, k) == UNION {[1..m -> S] : m \in 0..k}

Range(s) == {s[i] : i \in 1..Len(s)}

(***************************************************************************)
(* Dominance.                                                              *)
(***************************************************************************)
\* variant: the test of lines 106-107 left out, so that equal objective
\* vectors dominate each other
dominates_or_equal(a, b) == a.d <= b.d /\ a.c <= b.c

\* Route.dominates: Pareto dominance on (total_distance, total_cost)
dominates(a, b) ==
    /\ a.d <= b.d /\ a.c <= b.c
    /\ (a.d < b.d \/ a.c < b.c)

\* Solution.dominates, called on archived solutions at GVNS.py line 76.
\* solution.py defines no method of that name; the test is the two-objective
\* Pareto dominance on (total_distance, total_cost) that section 4.3 of the
\* specification gives for the archive, which is Route.dominates
SolutionDominates(a, b) == dominates(a, b)

(***************************************************************************)
(* The archive.                                                            *)
(***************************************************************************)
\* variant: the fingerprint takes the distance twice and forgets the cost
get_solution_hash_distance_only(sol) == <<sol.d, sol.d>>

get_solution_hash(sol) == <<sol.d, sol.c>>

\* variant: return True placed inside the loop, so that only the first
\* archive member is compared
is_non_dominated_first_only(solution, archive) ==
    \/ Len(archive) = 0
    \/ ~(archive[1].f /\ SolutionDominates(archive[1], solution))

\* GVNS.is_non_dominated
is_non_dominated(solution, archive) ==
    \A i \in 1..Len(archive) :
        ~(archive[i].f /\ SolutionDominates(archive[i], solution))

\* the set comprehension of lines 94, 95 and 134
FeasibleHashes(list) ==
    {get_solution_hash(list[i]) : i \in {j \in 1..Len(list) : list[j].f}}

\* lines 98-104: the loop that filters the new solutions; acc is
\* truly_new_solutions so far, hashes is existing_hashes so far
RECURSIVE FilterNew(_, _, _, _)
FilterNew(new_solutions, i, hashes, acc) ==
    IF i > Len(new_solutions) THEN acc
    ELSE LET new_sol == new_solutions[i]
             new_hash == get_solution_hash(new_sol)
         IN  IF new_sol.f /\ new_hash \notin hashes
             THEN FilterNew(new_solutions, i + 1, hashes \cup {new_hash},
                            Append(acc, new_sol))
             ELSE FilterNew(new_solutions, i + 1, hashes, acc)

truly_new_solutions(archive, new_solutions) ==
    FilterNew(new_solutions, 1, FeasibleHashes(archive), <<>>)

\* lines 110-126: the loop that collects the non-dominated solutions of the
\* extended archive
\* variant: the loop without the is_feasible test of line 114
RECURSIVE CollectNonDominated_keep_infeasible(_, _, _, _)
CollectNonDominated_keep_infeasible(archive, i, processed_hashes, acc) ==
    IF i > Len(archive) THEN acc
    ELSE LET sol == archive[i]
             sol_hash == get_solution_hash(sol)
         IN  IF sol_hash \in processed_hashes THEN
                 CollectNonDominated_keep_infeasible(archive, i + 1,
                                                     processed_hashes, acc)
             ELSE IF is_non_dominated(sol, archive) THEN
                 CollectNonDominated_keep_infeasible(
                     archive, i + 1, processed_hashes \cup {sol_hash},
                     Append(acc, sol))
             ELSE CollectNonDominated_keep_infeasible(archive, i + 1,
                                                      processed_hashes, acc)

\* variant: the loop without the processed_hashes test of line 120
RECURSIVE CollectNonDominated_no_processed(_, _, _, _)
CollectNonDominated_no_processed(archive, i, processed_hashes, acc) ==
    IF i > Len(archive) THEN acc
    ELSE LET sol == archive[i]
         IN  IF ~sol.f THEN
                 CollectNonDominated_no_processed(archive, i + 1,
                                                  processed_hashes, acc)
             ELSE IF is_non_dominated(sol, archive) THEN
                 CollectNonDominated_no_processed(archive, i + 1,
                                                  processed_hashes,
                                                  Append(acc, sol))
             ELSE CollectNonDominated_no_processed(archive, i + 1,
                                                   processed_hashes, acc)

RECURSIVE CollectNonDominated(_, _, _, _)
CollectNonDominated(archive, i, processed_hashes, acc) ==
    IF i > Len(archive) THEN acc
    ELSE LET sol == archive[i]
             sol_hash == get_solution_hash(sol)
         IN  IF ~sol.f THEN
                 CollectNonDominated(archive, i + 1, processed_hashes, acc)
             ELSE IF sol_hash \in processed_hashes THEN
                 CollectNonDominated(archive, i + 1, processed_hashes, acc)
             ELSE IF is_non_dominated(sol, archive) THEN
                 CollectNonDominated(archive, i + 1,
                                     processed_hashes \cup {sol_hash},
                                     Append(acc, sol))
             ELSE CollectNonDominated(archive, i + 1, processed_hashes, acc)

non_dominated(archive, new_solutions) ==
    CollectNonDominated(archive \o truly_new_solutions(archive, new_solutions),
                        1, {}, <<>>)

\* variant: the sort key with cost before distance
SortKey_cost_first(sol) == <<sol.c, sol.d>>

\* the sort key of line 130
SortKey(sol) == <<sol.d, sol.c>>

KeyLess(k1, k2) ==
    \/ k1[1] < k2[1]
    \/ k1[1] = k2[1] /\ k1[2] < k2[2]

\* list.sort(key=...): stable ascending sort, as a stable insertion sort
RECURSIVE InsertSorted(_, _)
InsertSorted(sorted, sol) ==
    IF sorted = <<>> THEN <<sol>>
    ELSE IF KeyLess(SortKey(sol), SortKey(sorted[Len(sorted)]))
         THEN Append(InsertSorted(SubSeq(sorted, 1, Len(sorted) - 1), sol),
                     sorted[Len(sorted)])
         ELSE Append(sorted, sol)

RECURSIVE SortByKey(_)
SortByKey(list) ==
    IF list = <<>> THEN <<>>
    ELSE InsertSorted(SortByKey(SubSeq(list, 1, Len(list) - 1)),
                      list[Len(list)])

\* variant: the slice keeps one member too many
ApplySizeLimit_one_more(list, na) ==
    IF Len(list) > na + 1 THEN SubSeq(SortByKey(list), 1, na + 1) ELSE list

\* variant: the slice keeps one member too few
ApplySizeLimit_one_fewer(list, na) ==
    IF Len(list) > na THEN SubSeq(SortByKey(list), 1, na - 1) ELSE list

\* lines 128-131: the size limit
ApplySizeLimit(list, na) ==
    IF Len(list) > na THEN SubSeq(SortByKey(list), 1, na) ELSE list

\* variant: old_hashes taken after archive.extend (line 107) instead of
\* before it
update_archive_old_after_extend(archive, new_solutions, na) ==
    LET old_hashes ==
            FeasibleHashes(archive \o truly_new_solutions(archive, new_solutions))
        result == ApplySizeLimit(non_dominated(archive, new_solutions), na)
        new_hashes == FeasibleHashes(result)
    IN  <<result, new_hashes # old_hashes>>

\* GVNS.update_archive: <<new archive, changed>>
update_archive(archive, new_solutions, na) ==
    LET old_hashes == FeasibleHashes(archive)
        result == ApplySizeLimit(non_dominated(archive, new_solutions), na)
        new_hashes == FeasibleHashes(result)
    IN  <<result, new_hashes # old_hashes>>

(***************************************************************************)
(* Instances, routes and solutions as the evaluators and the operators see *)
(* them.  A node is its id; a Route is the record                          *)
(* [nodes, charging_decisions, total_distance, total_cost, total_time,     *)
(* is_feasible]; charging_decisions maps a node id to <<technology id,     *)
(* energy>> and is defined on the ids it holds.  Distances and charged     *)
(* energies are even and the powers are 1 and 2, so that energy / power is *)
(* exact.                                                                  *)
(***************************************************************************)
\* node ids by NodeType (src/src/EVRP/classes/node.py)
DepotIds == {0, 8, 9}
CustomerIds == {1, 2, 3, 4}
StationIds == {5, 6}

NodeIds == DepotIds \cup CustomerIds \cup StationIds

\* Technology (src/src/EVRP/classes/technology.py): id 1 is slow and cheap,
\* id 2 fast and dear, id 3 is offered by no node
Technology(id) ==
    CASE id = 1 -> [id |-> 1, power |-> 1, cost_per_kwh |-> 1]
      [] id = 2 -> [id |-> 2, power |-> 2, cost_per_kwh |-> 2]
      [] OTHER  -> [id |-> 3, power |-> 1, cost_per_kwh |-> 1]

\* the value of a name bound to None
None == -1

\* next((n.id for n in instance.nodes if n.type == NodeType.DEPOT), None)
RECURSIVE FirstDepot(_, _)
FirstDepot(nodes, i) ==
    IF i > Len(nodes) THEN None
    ELSE IF nodes[i] \in DepotIds THEN nodes[i]
    ELSE FirstDepot(nodes, i + 1)

depot_id(instance) == FirstDepot(instance.nodes, 1)

\* Route(): the fields set by __init__
NewRoute(nodes, charging_decisions) ==
    [nodes |-> nodes, charging_decisions |-> charging_decisions,
     total_distance |-> 0, total_cost |-> 0, total_time |-> 0,
     is_feasible |-> TRUE]

\* the running values of an evaluator's simulation
StartOfWalk(instance) ==
    [current_battery |-> instance.battery_capacity, current_load |-> 0,
     current_time |-> 0, total_distance |-> 0, total_cost |-> 0,
     is_feasible |-> TRUE, finished |-> FALSE]

\* lines 79-85 of route.py (131-138 of solution.py): the charge taken at a
\* node with a charging decision
Charge(st, instance, decision) ==
    LET tech == Technology(decision[1])
        energy_to_charge == decision[2]
        charging_time == energy_to_charge \div tech.power
        sum == st.current_battery + energy_to_charge
    IN  [st EXCEPT
            !.current_time = @ + instance.charging_fixed_time + charging_time,
            !.current_battery = IF sum < instance.battery_capacity
                                THEN sum ELSE instance.battery_capacity,
            !.total_cost = @ + energy_to_charge * tech.cost_per_kwh
                             + instance.battery_depreciation_cost]

\* variant: the loop of Route.evaluate without the battery test of line 51
RECURSIVE RouteEvaluateLoop_no_battery_test(_, _, _, _)
RouteEvaluateLoop_no_battery_test(route, instance, i, st) ==
    IF i > Len(route.nodes) THEN [st EXCEPT !.finished = TRUE]
    ELSE
    LET node_id == route.nodes[i]
        prev_node_id == route.nodes[i - 1]
        travel_dist == instance.distance_matrix[<<prev_node_id, node_id>>]
        travel_time == instance.time_matrix[<<prev_node_id, node_id>>]
        energy_consumed == travel_dist * instance.consumption_rate
        moved == [st EXCEPT !.current_battery = @ - energy_consumed,
                            !.current_time = @ + travel_time,
                            !.total_distance = @ + travel_dist]
    IN  IF node_id \in CustomerIds THEN
            LET served == [moved EXCEPT
                              !.current_load = @ + instance.demand[node_id],
                              !.current_time =
                                  @ + instance.service_time[node_id]]
            IN  IF served.current_load > instance.capacity
                THEN [served EXCEPT !.is_feasible = FALSE]
                ELSE RouteEvaluateLoop_no_battery_test(route, instance, i + 1,
                                                       served)
        ELSE IF node_id \in DOMAIN route.charging_decisions THEN
            IF route.charging_decisions[node_id][1]
                   \notin instance.technologies[node_id]
            THEN [moved EXCEPT !.is_feasible = FALSE]
            ELSE RouteEvaluateLoop_no_battery_test(
                     route, instance, i + 1,
                     Charge(moved, instance, route.charging_decisions[node_id]))
        ELSE RouteEvaluateLoop_no_battery_test(route, instance, i + 1, moved)

\* Route.evaluate, lines 44-87: the loop over nodes[1:], from position i on
RECURSIVE RouteEvaluateLoop(_, _, _, _)
RouteEvaluateLoop(route, instance, i, st) ==
    IF i > Len(route.nodes) THEN [st EXCEPT !.finished = TRUE]
    ELSE
    LET node_id == route.nodes[i]
        prev_node_id == route.nodes[i - 1]
        travel_dist == instance.distance_matrix[<<prev_node_id, node_id>>]
        travel_time == instance.time_matrix[<<prev_node_id, node_id>>]
        energy_consumed == travel_dist * instance.consumption_rate
        moved == [st EXCEPT !.current_battery = @ - energy_consumed,
                            !.current_time = @ + travel_time,
                            !.total_distance = @ + travel_dist]
    IN  IF st.current_battery < energy_consumed
        THEN [st EXCEPT !.is_feasible = FALSE]
        ELSE IF node_id \in CustomerIds THEN
            LET served == [moved EXCEPT
                              !.current_load = @ + instance.demand[node_id],
                              !.current_time =
                                  @ + instance.service_time[node_id]]
            IN  IF served.current_load > instance.capacity
                THEN [served EXCEPT !.is_feasible = FALSE]
                ELSE RouteEvaluateLoop(route, instance, i + 1, served)
        ELSE IF node_id \in DOMAIN route.charging_decisions THEN
            IF route.charging_decisions[node_id][1]
                   \notin instance.technologies[node_id]
            THEN [moved EXCEPT !.is_feasible = FALSE]
            ELSE RouteEvaluateLoop(
                     route, instance, i + 1,
                     Charge(moved, instance, route.charging_decisions[node_id]))
        ELSE RouteEvaluateLoop(route, instance, i + 1, moved)

\* variant: an evaluator that adds the distance walked to the cached
\* total_distance instead of starting from 0 (lines 22-24 left out)
AfterLoop_accumulating(route, instance, st) ==
    [route EXCEPT
        !.total_distance = @ + st.total_distance,
        !.total_cost = st.total_cost,
        !.total_time = IF st.finished THEN st.current_time ELSE 0,
        !.is_feasible = /\ st.is_feasible
                        /\ ~(/\ st.finished
                             /\ st.current_time > instance.max_route_duration)]

\* the cached fields an evaluator leaves on the route after its loop
AfterLoop(route, instance, st) ==
    [route EXCEPT
        !.total_distance = st.total_distance,
        !.total_cost = st.total_cost,
        !.total_time = IF st.finished THEN st.current_time ELSE 0,
        !.is_feasible = /\ st.is_feasible
                        /\ ~(/\ st.finished
                             /\ st.current_time > instance.max_route_duration)]

\* the fields of a route rejected before the loop (lines 22-40)
Rejected(route) ==
    [route EXCEPT !.total_distance = 0, !.total_cost = 0, !.total_time = 0,
                  !.is_feasible = FALSE]

\* Route.evaluate
RouteEvaluate(route, instance) ==
    IF Len(route.nodes) = 0 THEN [route EXCEPT !.is_feasible = FALSE]
    ELSE IF depot_id(instance) = None THEN Rejected(route)
    ELSE IF \/ route.nodes[1] # depot_id(instance)
            \/ route.nodes[Len(route.nodes)] # depot_id(instance)
         THEN Rejected(route)
    ELSE AfterLoop(route, instance,
                   RouteEvaluateLoop(route, instance, 2,
                                     StartOfWalk(instance)))

\* Solution._evaluate_route, lines 80-141: the loop over nodes[1:]; a
\* charge is taken at a station and at a depot that is not the last node
RECURSIVE SolutionEvaluateRouteLoop(_, _, _, _)
SolutionEvaluateRouteLoop(route, instance, i, st) ==
    IF i > Len(route.nodes) THEN [st EXCEPT !.finished = TRUE]
    ELSE
    LET node_id == route.nodes[i]
        prev_node_id == route.nodes[i - 1]
        travel_dist == instance.distance_matrix[<<prev_node_id, node_id>>]
        travel_time == instance.time_matrix[<<prev_node_id, node_id>>]
        energy_consumed == travel_dist * instance.consumption_rate
        moved == [st EXCEPT !.current_battery = @ - energy_consumed,
                            !.current_time = @ + travel_time,
                            !.total_distance = @ + travel_dist]
        \* lines 118-123: the technologies looked up for the node
        offered == IF node_id \in StationIds
                   THEN instance.technologies[node_id]
                   ELSE instance.technologies[depot_id(instance)]
    IN  IF st.current_battery < energy_consumed
        THEN [st EXCEPT !.is_feasible = FALSE]
        ELSE IF node_id \in CustomerIds THEN
            LET served == [moved EXCEPT
                              !.current_load = @ + instance.demand[node_id],
                              !.current_time =
                                  @ + instance.service_time[node_id]]
            IN  IF served.current_load > instance.capacity
                THEN [served EXCEPT !.is_feasible = FALSE]
                ELSE SolutionEvaluateRouteLoop(route, instance, i + 1, served)
        ELSE IF /\ (node_id \in StationIds
                      \/ (node_id \in DepotIds /\ i < Len(route.nodes)))
                /\ node_id \in DOMAIN route.charging_decisions THEN
            IF route.charging_decisions[node_id][1] \notin offered
            THEN [moved EXCEPT !.is_feasible = FALSE]
            ELSE SolutionEvaluateRouteLoop(
                     route, instance, i + 1,
                     Charge(moved, instance, route.charging_decisions[node_id]))
        ELSE SolutionEvaluateRouteLoop(route, instance, i + 1, moved)

\* Solution._evaluate_route (Instance carries no vehicle_cost_per_route, so
\* lines 157-158 add nothing; the test of line 152 repeats that of line 89)
SolutionEvaluateRoute(route, instance) ==
    IF Len(route.nodes) = 0 THEN [route EXCEPT !.is_feasible = FALSE]
    ELSE IF depot_id(instance) = None THEN Rejected(route)
    ELSE IF \/ route.nodes[1] # depot_id(instance)
            \/ route.nodes[Len(route.nodes)] # depot_id(instance)
         THEN Rejected(route)
    ELSE LET st == SolutionEvaluateRouteLoop(route, instance, 2,
                                             StartOfWalk(instance))
             after == AfterLoop(route, instance, st)
         IN  [after EXCEPT
                 !.is_feasible = @ /\ ~(st.finished /\ st.current_battery < 0)]

\* Solution(instance): the fields set by __init__
NewSolution(routes) ==
    [routes |-> routes, total_distance |-> 0, total_cost |-> 0,
     num_vehicles_used |-> 0, is_feasible |-> TRUE]

\* lines 27-32 of solution.py: every route evaluated in place
EvaluatedRoutes(solution, instance) ==
    [r \in 1..Len(solution.routes) |->
        SolutionEvaluateRoute(solution.routes[r], instance)]

RECURSIVE SumOver(_, _, _)
SumOver(routes, field, r) ==
    IF r > Len(routes) THEN 0
    ELSE routes[r][field] + SumOver(routes, field, r + 1)

\* lines 35-39: the set of the customers met on the routes
served_customers(routes) ==
    UNION {{routes[r].nodes[k] : k \in 1..Len(routes[r].nodes)}
               \cap CustomerIds : r \in 1..Len(routes)}

\* line 41
all_customers(instance) ==
    {instance.nodes[k] : k \in 1..Len(instance.nodes)} \cap CustomerIds

\* Solution.evaluate
SolutionEvaluate(solution, instance) ==
    LET routes == EvaluatedRoutes(solution, instance)
    IN  [routes |-> routes,
         total_distance |-> SumOver(routes, "total_distance", 1),
         total_cost |-> SumOver(routes, "total_cost", 1),
         num_vehicles_used |-> Len(routes),
         is_feasible |->
             /\ ~(Len(routes) > instance.num_vehicles)
             /\ \A r \in 1..Len(routes) : routes[r].is_feasible
             /\ served_customers(routes) = all_customers(instance)]

(***************************************************************************)
(* Direct calls of the evaluators: Route.evaluate on any node sequence     *)
(* with any charging decisions, Solution.evaluate on any solution.         *)
(***************************************************************************)
Abs(n) == IF n < 0 THEN 0 - n ELSE n

\* build_matrices (src/src/utils/math.py) for nodes placed on a line two
\* distance units apart; slowness is 1 / avg_speed
LineMatrix(ids, pos, slowness) ==
    [p \in ids \X ids |-> 2 * slowness * Abs(pos[p[1]] - pos[p[2]])]

\* a depot, two customers, and a station at the place of customer 2
EvalPlaces == [n \in {0, 1, 2, 5} |-> CASE n = 1 -> 1 [] n = 2 -> 2
                                         [] n = 5 -> 2 [] OTHER -> 0]

EvalInstance(nodes, battery_capacity, capacity, max_route_duration, k) ==
    [nodes |-> nodes, stations |-> <<5>>,
     distance_matrix |-> LineMatrix({0, 1, 2, 5}, EvalPlaces, 1),
     time_matrix |-> LineMatrix({0, 1, 2, 5}, EvalPlaces, 1),
     demand |-> [n \in {1, 2} |-> 1],
     service_time |-> [n \in {1, 2} |-> IF n = 2 THEN 2 ELSE 0],
     technologies |-> [n \in {0, 5} |-> IF n = 0 THEN {1} ELSE {1, 2}],
     capacity |-> capacity, battery_capacity |-> battery_capacity,
     consumption_rate |-> 1, max_range |-> battery_capacity,
     max_route_duration |-> max_route_duration,
     charging_fixed_time |-> 1, battery_depreciation_cost |-> 1,
     num_vehicles |-> k]

\* instances for the routes: small and large battery, capacity and duration
\* cap, and an instance without a depot
RouteInstances ==
    {EvalInstance(<<0, 1, 2, 5>>, b, q, t, 1) :
        b \in {4, 8}, q \in {1, 2}, t \in {6, 20}}
    \cup {EvalInstance(<<1, 2, 5>>, 8, 2, 20, 1)}

\* instances for the solutions: one or two vehicles
FleetInstances ==
    {EvalInstance(<<0, 1, 2, 5>>, 8, q, 20, k) : q \in {1, 2}, k \in {1, 2}}

\* charging decisions handed to the evaluators: at the depot none or the
\* depot's technology, at the station none, an offered technology or the
\* technology no node offers
EvalDecisions ==
    {[n \in D |-> IF n \in DepotIds THEN <<1, 2>> ELSE s] :
        D \in SUBSET {0, 5}, s \in {<<1, 2>>, <<2, 4>>, <<3, 2>>}}

EvalRoutes ==
    {NewRoute(nodes, cd) :
        nodes \in SeqUpTo({0, 1, 2, 5}, MaxRouteLen), cd \in EvalDecisions}

\* solutions whose routes all run from the depot to the depot
BoundedRoutes ==
    {NewRoute(<<0>> \o stops \o <<0>>, <<>>) :
        stops \in SeqUpTo({1, 2}, MaxStops)}

RouteSolutions == {NewSolution(<<route>>) : route \in EvalRoutes}

FleetSolutions ==
    {NewSolution(routes) : routes \in SeqUpTo(BoundedRoutes, MaxRoutes)}

(***************************************************************************)
(* EliminateRoute (src/src/EVRP/local_search/eliminate_route.py).  A       *)
(* random choice of the code is a choice among the members of a set: each  *)
(* operator below yields the set of the values the call can leave.  An     *)
(* Optional[Route] is the set of the routes it can be: empty for None.     *)
(***************************************************************************)
\* list.insert(position, node) on a copy of the list
InsertAt(nodes, node, position) ==
    SubSeq(nodes, 1, position) \o <<node>>
        \o SubSeq(nodes, position + 1, Len(nodes))

\* the customers met on a route, in route order (lines 42-45)
RECURSIVE CustomersOf(_, _)
CustomersOf(nodes, i) ==
    IF i > Len(nodes) THEN <<>>
    ELSE IF nodes[i] \in CustomerIds
         THEN <<nodes[i]>> \o CustomersOf(nodes, i + 1)
         ELSE CustomersOf(nodes, i + 1)

\* random.shuffle (line 62): every order of the list
Shuffles(list) ==
    {[k \in 1..Len(list) |-> list[f[k]]] :
        f \in {g \in [1..Len(list) -> 1..Len(list)] :
                  \A a, b \in 1..Len(list) : g[a] = g[b] => a = b}}

\* _create_route_with_inserted_customer (lines 133-153)
create_route_with_inserted_customer(route, customer, position) ==
    LET nodes == InsertAt(route.nodes, customer, position)
    IN  IF nodes[1] \in DepotIds /\ nodes[Len(nodes)] \in DepotIds
        THEN {NewRoute(nodes, route.charging_decisions)}
        ELSE {}

\* random.randint(1, len(route.nodes)) (lines 97 and 123)
Positions(route) == 1..Len(route.nodes)

\* _try_insert_customer_into_route (lines 83-113): the routes a successful
\* call can leave.  The call can also fail whatever the route is: every
\* attempt can draw the position behind the last depot.
try_insert_customer_into_route(route, customer, instance) ==
    IF Len(route.nodes) < 2 THEN {}
    ELSE {RouteEvaluate(new_route, instance) :
             new_route \in
                 {nr \in UNION {create_route_with_inserted_customer(
                                    route, customer, position) :
                                    position \in Positions(route)} :
                     RouteEvaluate(nr, instance).is_feasible}}

\* _force_insert_customer_into_route (lines 115-131): the routes the call
\* can leave; the route itself when nothing is inserted
force_insert_customer_into_route(route, customer, instance) ==
    IF Len(route.nodes) = 0 THEN {route}
    ELSE UNION {LET made == create_route_with_inserted_customer(
                                route, customer, position)
                IN  IF made = {} THEN {route}
                    ELSE {RouteEvaluate(nr, instance) : nr \in made} :
                   position \in Positions(route)}

\* min(..., key=distance to the customer) over the nodes of a kind, in the
\* order of instance.nodes (lines 167 and 218)
RECURSIVE Nearest(_, _, _, _, _)
Nearest(instance, kind, customer, i, best) ==
    IF i > Len(instance.nodes) THEN best
    ELSE LET n == instance.nodes[i]
         IN  IF n \in kind
                /\ (best = None
                      \/ instance.distance_matrix[<<customer, n>>]
                            < instance.distance_matrix[<<customer, best>>])
             THEN Nearest(instance, kind, customer, i + 1, n)
             ELSE Nearest(instance, kind, customer, i + 1, best)

\* random.choice(node.technologies) when the list is not empty (lines
\* 175-178 and 226-230): the decisions the node can get
WithDecision(decisions, node, instance, energy) ==
    IF instance.technologies[node] = {} THEN {decisions}
    ELSE {[n \in DOMAIN decisions \cup {node} |->
              IF n = node THEN <<tech, energy>> ELSE decisions[n]] :
             tech \in instance.technologies[node]}

\* _try_make_route_feasible (lines 191-238) on depot -> customer -> depot
try_make_route_feasible(route, instance) ==
    LET depot == route.nodes[1]
        customer == route.nodes[2]
        total_energy_needed ==
            (instance.distance_matrix[<<depot, customer>>]
               + instance.distance_matrix[<<customer, depot>>])
              * instance.consumption_rate
        closest_station == Nearest(instance, StationIds, customer, 1, None)
    IN  IF total_energy_needed <= instance.battery_capacity
        THEN {r \in {RouteEvaluate(route, instance)} : r.is_feasible}
        ELSE IF closest_station = None THEN {}
        ELSE {r \in {RouteEvaluate(
                         NewRoute(<<depot, customer, closest_station, depot>>,
                                  cd), instance) :
                         cd \in WithDecision(
                                   route.charging_decisions, closest_station,
                                   instance,
                                   instance.distance_matrix[
                                       <<closest_station, depot>>]
                                     * instance.consumption_rate)} :
                 r.is_feasible}

\* _create_new_route_for_customer (lines 155-189): for each choice of the
\* depot's technology the route made, or nothing
create_new_route_for_customer(customer, instance) ==
    LET depot == Nearest(instance, DepotIds, customer, 1, None)
    IN  IF depot = None THEN {{}}
        ELSE {LET new_route ==
                      RouteEvaluate(NewRoute(<<depot, customer, depot>>, cd),
                                    instance)
              IN  IF new_route.is_feasible THEN {new_route}
                  ELSE try_make_route_feasible(new_route, instance) :
                 cd \in WithDecision(<<>>, depot, instance,
                                     instance.battery_capacity)}

\* lines 64-81: the route lists one customer's turn can leave: inserted
\* into a route, or, every try having failed, put on a route of its own,
\* or, no such route being made, forced into a route or left out
PlaceCustomer(routes, customer, instance) ==
    LET forced ==
            IF Len(routes) = 0 THEN {routes}
            ELSE UNION {{[routes EXCEPT ![r] = route] :
                            route \in force_insert_customer_into_route(
                                          routes[r], customer, instance)} :
                           r \in 1..Len(routes)}
    IN  UNION {{[routes EXCEPT ![r] = route] :
                   route \in try_insert_customer_into_route(
                                 routes[r], customer, instance)} :
                  r \in 1..Len(routes)}
        \cup UNION {IF made = {} THEN forced
                    ELSE {Append(routes, new_route) : new_route \in made} :
                       made \in create_new_route_for_customer(customer,
                                                              instance)}

\* _redistribute_customers after the shuffle (lines 64-81)
RECURSIVE Redistribute(_, _, _)
Redistribute(routes, customers, instance) ==
    IF customers = <<>> THEN {routes}
    ELSE UNION {Redistribute(placed, Tail(customers), instance) :
                   placed \in PlaceCustomer(routes, Head(customers), instance)}

\* list.pop(idx) (line 50)
Popped(list, idx) ==
    SubSeq(list, 1, idx - 1) \o SubSeq(list, idx + 1, Len(list))

\* EliminateRoute.perturbation with max_iter = 1 (lines 29-54): the
\* solutions the call can leave
EliminateRoutePerturbation(sol, instance) ==
    IF Len(sol.routes) <= 1 THEN {sol}
    ELSE UNION {
        LET customers_to_redistribute ==
                CustomersOf(sol.routes[route_to_eliminate_idx].nodes, 1)
        IN  IF customers_to_redistribute = <<>> THEN {sol}
            ELSE {[sol EXCEPT !.routes = routes] :
                     routes \in UNION {
                         Redistribute(Popped(sol.routes,
                                             route_to_eliminate_idx),
                                      customers, instance) :
                         customers \in Shuffles(customers_to_redistribute)}} :
        route_to_eliminate_idx \in 1..Len(sol.routes)}

\* instances for EliminateRoute: two vehicles, small and large capacity,
\* short and long duration cap
EliminateInstances ==
    {EvalInstance(<<0, 1, 2, 5>>, 8, q, t, 2) : q \in {1, 2}, t \in {12, 20}}

(***************************************************************************)
(* RouteSplit (src/src/EVRP/local_search/route_split.py) with the default  *)
(* select_best = True.  Positions are Python's, counted from 0: node       *)
(* position p of the code is nodes[p + 1] here.                            *)
(***************************************************************************)
\* customer_count (lines 78 and 107)
customer_count(route) == Len(CustomersOf(route.nodes, 1))

\* _should_split_route (lines 64-92); total_time > max_route_duration * 0.8
\* and total_distance > 200 in whole numbers
should_split_route(route, instance) ==
    /\ Len(route.nodes) > 4
    /\ \/ customer_count(route) >= 8
       \/ 10 * route.total_time > 8 * instance.max_route_duration
       \/ route.total_distance > 200

\* _can_split_route (lines 94-108)
can_split_route(route) ==
    Len(route.nodes) > 4 /\ customer_count(route) >= 4

\* lines 262-265: the positions of the customers between the two ends
RECURSIVE customer_positions(_, _)
customer_positions(nodes, p) ==
    IF p >= Len(nodes) - 1 THEN <<>>
    ELSE IF nodes[p + 1] \in CustomerIds
         THEN <<p>> \o customer_positions(nodes, p + 1)
         ELSE customer_positions(nodes, p + 1)

\* lines 269-272: for i in range(2, len(customer_positions) - 1)
RECURSIVE SplitPositionsFrom(_, _, _)
SplitPositionsFrom(positions, i, len) ==
    IF i >= Len(positions) - 1 THEN <<>>
    ELSE LET split_pos == positions[i + 1] + 1
         IN  IF split_pos < len - 1
             THEN <<split_pos>> \o SplitPositionsFrom(positions, i + 1, len)
             ELSE SplitPositionsFrom(positions, i + 1, len)

\* _get_valid_split_positions (lines 246-274)
get_valid_split_positions(route) ==
    IF Len(route.nodes) <= 4 THEN <<>>
    ELSE SplitPositionsFrom(customer_positions(route.nodes, 1), 2,
                            Len(route.nodes))

\* lines 306-315: the charging decisions of the nodes a route keeps
KeptDecisions(decisions, nodes) ==
    [n \in {m \in DOMAIN decisions : \E k \in 1..Len(nodes) : nodes[k] = m}
        |-> decisions[n]]

\* _create_split_routes (lines 276-326): the list of the two routes, or the
\* empty list
create_split_routes(route, split_pos) ==
    LET len == Len(route.nodes)
        depot == route.nodes[1]
        end_depot == route.nodes[len]
        nodes1 == <<depot>> \o SubSeq(route.nodes, 2, split_pos) \o <<depot>>
        nodes2 == <<end_depot>> \o SubSeq(route.nodes, split_pos + 1, len - 1)
                      \o <<end_depot>>
    IN  IF split_pos < 2 \/ split_pos >= len - 1 THEN <<>>
        ELSE IF \/ Len(nodes1) < 3 \/ Len(nodes2) < 3
                \/ depot \notin DepotIds \/ end_depot \notin DepotIds
             THEN <<>>
        ELSE <<NewRoute(nodes1, KeptDecisions(route.charging_decisions, nodes1)),
               NewRoute(nodes2, KeptDecisions(route.charging_decisions, nodes2))>>

\* lines 137-138, 226-227: both routes evaluated
BothEvaluated(new_routes, instance) ==
    [k \in 1..Len(new_routes) |-> RouteEvaluate(new_routes[k], instance)]

\* the score total_distance * 0.7 + total_cost * 0.3 (line 238), in tenths
SplitScore(temp_routes) ==
    7 * (temp_routes[1].total_distance + temp_routes[2].total_distance)
      + 3 * (temp_routes[1].total_cost + temp_routes[2].total_cost)

\* lines 222-242: <<best_pos, best_score>> after the split at pos has been
\* looked at; best_score None stands for float('inf')
BetterSplit(temp_routes, pos, best) ==
    IF Len(temp_routes) # 2 THEN best
    ELSE IF ~temp_routes[1].is_feasible \/ ~temp_routes[2].is_feasible
    THEN best
    ELSE IF best[2] = None \/ SplitScore(temp_routes) < best[2]
    THEN <<pos, SplitScore(temp_routes)>>
    ELSE best

\* _find_best_split_position (lines 199-244): the loop over the positions
\* from the i-th on
RECURSIVE BestSplitFrom(_, _, _, _, _)
BestSplitFrom(route, instance, positions, i, best) ==
    IF i > Len(positions) THEN best[1]
    ELSE BestSplitFrom(
             route, instance, positions, i + 1,
             BetterSplit(BothEvaluated(
                             create_split_routes(route, positions[i]),
                             instance),
                         positions[i], best))

find_best_split_position(route, instance) ==
    BestSplitFrom(route, instance, get_valid_split_positions(route), 1,
                  <<None, None>>)

Max2(a, b) == IF a > b THEN a ELSE b

\* _is_better_split (lines 328-370) with select_best; max_new_time <
\* original_time * 0.9 in whole numbers
is_better_split(original_route, new_routes) ==
    \/ /\ new_routes[1].total_distance + new_routes[2].total_distance
              <= original_route.total_distance
       /\ new_routes[1].total_cost + new_routes[2].total_cost
              <= original_route.total_cost
       /\ \/ new_routes[1].total_distance + new_routes[2].total_distance
                 < original_route.total_distance
          \/ new_routes[1].total_cost + new_routes[2].total_cost
                 < original_route.total_cost
    \/ 10 * Max2(new_routes[1].total_time, new_routes[2].total_time)
           < 9 * original_route.total_time

\* lines 133-153: the two evaluated routes take the place of the route at
\* index idx (from 1) if both are feasible and the split is better
ReplaceBySplit(routes, idx, new_routes) ==
    IF Len(new_routes) # 2 THEN <<routes, FALSE>>
    ELSE IF ~new_routes[1].is_feasible \/ ~new_routes[2].is_feasible
    THEN <<routes, FALSE>>
    ELSE IF is_better_split(routes[idx], new_routes)
    THEN <<SubSeq(routes, 1, idx - 1) \o new_routes
               \o SubSeq(routes, idx + 1, Len(routes)), TRUE>>
    ELSE <<routes, FALSE>>

\* lines 127-138: the split at the best position, if there is one
SplitAt(routes, idx, instance, best_split_pos) ==
    IF best_split_pos = None THEN <<routes, FALSE>>
    ELSE ReplaceBySplit(routes, idx,
                        BothEvaluated(
                            create_split_routes(routes[idx], best_split_pos),
                            instance))

\* _split_route (lines 110-153) on the route at index idx:
\* <<the routes left, the value returned>>
split_route(routes, idx, instance) ==
    IF ~can_split_route(routes[idx]) THEN <<routes, FALSE>>
    ELSE SplitAt(routes, idx, instance,
                 find_best_split_position(routes[idx], instance))

\* line 42: improved = True
Improved(split, improved) == <<split[1], improved \/ split[2]>>

\* RouteSplit.local_search (lines 31-44) from the route at index idx on,
\* done == <<routes, improved>>: the for loop walks the list by index while
\* _split_route changes it, so after a split the second new route is the
\* next one looked at
RECURSIVE RouteSplitLoop(_, _, _)
RouteSplitLoop(done, idx, instance) ==
    IF idx > Len(done[1]) THEN done
    ELSE RouteSplitLoop(
             IF should_split_route(done[1][idx], instance)
             THEN Improved(split_route(done[1], idx, instance), done[2])
             ELSE done,
             idx + 1, instance)

\* <<the solution left, the value returned>>
SolutionWith(sol, done) == <<[sol EXCEPT !.routes = done[1]], done[2]>>

RouteSplitLocalSearch(sol, instance) ==
    SolutionWith(sol, RouteSplitLoop(<<sol.routes, FALSE>>, 1, instance))

\* a depot in the middle of a line, customers 1, 2, 3 on one side and
\* customer 4 on the other
SplitPlaces == [n \in {0, 1, 2, 3, 4} |-> IF n = 4 THEN 0 - 1 ELSE n]

SplitInstance(max_route_duration, k) ==
    [nodes |-> <<0, 1, 2, 3, 4>>, stations |-> <<>>,
     distance_matrix |-> LineMatrix({0, 1, 2, 3, 4}, SplitPlaces, 1),
     time_matrix |-> LineMatrix({0, 1, 2, 3, 4}, SplitPlaces, 1),
     demand |-> [n \in {1, 2, 3, 4} |-> 1],
     service_time |-> [n \in {1, 2, 3, 4} |-> 0],
     technologies |-> [n \in {0} |-> {1}],
     capacity |-> 4, battery_capacity |-> 24,
     consumption_rate |-> 1, max_range |-> 24,
     max_route_duration |-> max_route_duration,
     charging_fixed_time |-> 1, battery_depreciation_cost |-> 1,
     num_vehicles |-> k]

\* a tight and a loose duration cap, one or two vehicles
SplitInstances == {SplitInstance(t, k) : t \in {18, 40}, k \in {1, 2}}

\* the four customers in any order on one route, or on two
SplitSolutions ==
    {NewSolution(<<NewRoute(<<0>> \o stops \o <<0>>, <<>>)>>) :
        stops \in Shuffles(<<1, 2, 3, 4>>)}
    \cup {NewSolution(<<NewRoute(<<0>> \o SubSeq(stops, 1, j) \o <<0>>, <<>>),
                        NewRoute(<<0>> \o SubSeq(stops, j + 1, 4) \o <<0>>,
                                 <<>>)>>) :
             stops \in Shuffles(<<1, 2, 3, 4>>), j \in 1..3}

(***************************************************************************)
(* RechargeRealocation                                                     *)
(* (src/src/EVRP/local_search/recharge_realocation.py).  Positions are     *)
(* Python's, counted from 0: At(list, p) is list[p] of the code.           *)
(***************************************************************************)
At(list, p) == list[p + 1]

\* _extract_customer_sequence (lines 153-159)
RECURSIVE extract_customer_sequence(_, _)
extract_customer_sequence(nodes, i) ==
    IF i > Len(nodes) THEN <<>>
    ELSE IF nodes[i] \in CustomerIds \cup DepotIds
         THEN <<nodes[i]>> \o extract_customer_sequence(nodes, i + 1)
         ELSE extract_customer_sequence(nodes, i + 1)

\* the sum of matrix over the legs of the sequence from position p to
\* position q (lines 161-168, 286-293, 303-309)
RECURSIVE LegSum(_, _, _, _)
LegSum(matrix, sequence, p, q) ==
    IF p >= q THEN 0
    ELSE matrix[<<At(sequence, p), At(sequence, p + 1)>>]
             + LegSum(matrix, sequence, p + 1, q)

calculate_total_distance(customer_sequence, instance) ==
    LegSum(instance.distance_matrix, customer_sequence, 0,
           Len(customer_sequence) - 1)

\* lines 184-190: the loop for a, from s on
RECURSIVE FindA(_, _, _, _, _)
FindA(customer_sequence, instance, AT, s, cumulative_distance) ==
    LET h == Len(customer_sequence)
        cumulative == cumulative_distance
            + instance.distance_matrix[<<At(customer_sequence, h - s - 1),
                                         At(customer_sequence, h - s)>>]
    IN  IF s >= h THEN h
        ELSE IF cumulative <= AT THEN h - s
        ELSE FindA(customer_sequence, instance, AT, s + 1, cumulative)

\* lines 193-200: the loop for b, from u on
RECURSIVE FindB(_, _, _, _, _, _)
FindB(customer_sequence, instance, AT, u, cumulative_distance, b) ==
    LET h == Len(customer_sequence)
        cumulative == cumulative_distance
            + instance.distance_matrix[<<At(customer_sequence, u - 2),
                                         At(customer_sequence, u - 1)>>]
    IN  IF u > h THEN b
        ELSE IF cumulative <= AT
        THEN FindB(customer_sequence, instance, AT, u + 1, cumulative, u)
        ELSE b

\* _find_recharge_interval (lines 170-202): <<a, b>>
find_recharge_interval(customer_sequence, instance, AT) ==
    <<FindA(customer_sequence, instance, AT, 1, 0),
      FindB(customer_sequence, instance, AT, 2, 0, 1)>>

\* _is_station_reachable (lines 254-272); detour <= direct * 1.5 in whole
\* numbers
is_station_reachable(customer_sequence, instance, position, station) ==
    IF position >= Len(customer_sequence) - 1 THEN FALSE
    ELSE LET current_node == At(customer_sequence, position)
             next_node == At(customer_sequence, position + 1)
             direct_distance ==
                 instance.distance_matrix[<<current_node, next_node>>]
             detour_distance ==
                 instance.distance_matrix[<<current_node, station>>]
                   + instance.distance_matrix[<<station, next_node>>]
         IN  2 * detour_distance <= 3 * direct_distance

\* _calculate_min_energy_needed (lines 274-316): the energy, or None
calculate_min_energy_needed(customer_sequence, instance, position, station) ==
    LET energy_consumed ==
            (instance.distance_matrix[
                 <<station, At(customer_sequence, position + 1)>>]
               + LegSum(instance.distance_matrix, customer_sequence,
                        position + 1, Len(customer_sequence) - 1))
              * instance.consumption_rate
        energy_to_station ==
            LegSum(instance.distance_matrix, customer_sequence, 0, position)
              * instance.consumption_rate
    IN  IF energy_consumed > instance.battery_capacity THEN None
        ELSE IF energy_to_station > instance.battery_capacity THEN None
        ELSE energy_consumed

\* _estimate_route_time (lines 356-371)
RECURSIVE estimate_route_time(_, _, _)
estimate_route_time(customer_sequence, instance, p) ==
    IF p >= Len(customer_sequence) - 1 THEN 0
    ELSE LET to_node == At(customer_sequence, p + 1)
         IN  instance.time_matrix[<<At(customer_sequence, p), to_node>>]
               + (IF to_node \in CustomerIds
                  THEN instance.service_time[to_node] ELSE 0)
               + estimate_route_time(customer_sequence, instance, p + 1)

\* _verify_time_constraint (lines 318-354)
verify_time_constraint(customer_sequence, instance, position, station, technology, energy) ==
    LET current_node == At(customer_sequence, position)
        next_node == At(customer_sequence, position + 1)
        direct_time == instance.time_matrix[<<current_node, next_node>>]
        detour_time == instance.time_matrix[<<current_node, station>>]
                         + instance.time_matrix[<<station, next_node>>]
        charging_time == energy \div Technology(technology).power
        total_additional_time ==
            (detour_time - direct_time) + instance.charging_fixed_time
              + charging_time
    IN  estimate_route_time(customer_sequence, instance, 0)
          + total_additional_time <= instance.max_route_duration

\* a list of technologies in the order of the node's list: by id
RECURSIVE TechnologyList(_)
TechnologyList(ids) ==
    IF ids = {} THEN <<>>
    ELSE LET first == CHOOSE t \in ids : \A u \in ids : t <= u
         IN  <<first>> \o TechnologyList(ids \ {first})

\* lines 220-234: the (position, station, technology) triples in the order
\* the three loops meet them
RECURSIVE OptionsFrom(_, _, _, _)
OptionsFrom(instance, i, b, k) ==
    IF i > b THEN <<>>
    ELSE IF k > Len(instance.stations) THEN OptionsFrom(instance, i + 1, b, 1)
    ELSE LET station == instance.stations[k]
             techs == TechnologyList(instance.technologies[station])
         IN  [j \in 1..Len(techs) |-> <<i, station, techs[j]>>]
                 \o OptionsFrom(instance, i, b, k + 1)

\* lines 237-250: <<best_option, best_cost>> after the triple has been
\* looked at with its min_energy
BetterWithEnergy(customer_sequence, instance, option, min_energy, best) ==
    IF min_energy = None THEN best
    ELSE IF /\ (best[2] = None
                  \/ min_energy * Technology(option[3]).cost_per_kwh < best[2])
            /\ verify_time_constraint(customer_sequence, instance, option[1],
                                      option[2], option[3], min_energy)
    THEN <<<<[station |-> option[2], position |-> option[1],
              technology |-> option[3], energy |-> min_energy]>>,
           min_energy * Technology(option[3]).cost_per_kwh>>
    ELSE best

\* lines 221-235: the triple <<i, station, tech>> is passed over when i is
\* the last position or the station is out of reach
BetterOption(customer_sequence, instance, option, best) ==
    IF option[1] >= Len(customer_sequence) - 1 THEN best
    ELSE IF ~is_station_reachable(customer_sequence, instance, option[1],
                                  option[2])
    THEN best
    ELSE BetterWithEnergy(
             customer_sequence, instance, option,
             calculate_min_energy_needed(customer_sequence, instance,
                                         option[1], option[2]),
             best)

\* _find_best_recharge_option (lines 204-252): the loop over the triples
\* from the j-th on; best_option <<>> stands for None, best_cost None for
\* float('inf')
RECURSIVE BestOptionFrom(_, _, _, _, _)
BestOptionFrom(customer_sequence, instance, options, j, best) ==
    IF j > Len(options) THEN best[1]
    ELSE BestOptionFrom(customer_sequence, instance, options, j + 1,
                        BetterOption(customer_sequence, instance, options[j],
                                     best))

find_best_recharge_option(customer_sequence, instance, a, b) ==
    BestOptionFrom(customer_sequence, instance, OptionsFrom(instance, a, b, 1),
                   1, <<<<>>, None>>)

\* _find_route_position (lines 406-411): the position, or -1
RECURSIVE find_route_position(_, _, _)
find_route_position(nodes, target_node, p) ==
    IF p >= Len(nodes) THEN 0 - 1
    ELSE IF At(nodes, p) = target_node THEN p
    ELSE find_route_position(nodes, target_node, p + 1)

\* the fields cleared at lines 400-404 and 508-512
Cleared(route) ==
    [route EXCEPT !.total_distance = 0, !.total_cost = 0, !.total_time = 0,
                  !.is_feasible = FALSE]

\* _apply_recharge_optimization (lines 373-404)
apply_recharge_optimization(route, customer_sequence, option) ==
    LET route_position ==
            find_route_position(route.nodes,
                                At(customer_sequence, option.position), 0)
    IN  IF route_position = 0 - 1 THEN route
        ELSE Cleared([route EXCEPT
                 !.nodes = InsertAt(@, option.station, route_position + 1),
                 !.charging_decisions =
                     [n \in DOMAIN @ \cup {option.station} |->
                         IF n = option.station
                         THEN <<option.technology, option.energy>>
                         ELSE @[n]]])

\* _verify_route_feasibility, lines 438-476: the loop over nodes[1:]; a
\* charge is taken at a station only
RECURSIVE VerifyLoop(_, _, _, _)
VerifyLoop(route, instance, i, st) ==
    IF i > Len(route.nodes) THEN [st EXCEPT !.finished = TRUE]
    ELSE
    LET node_id == route.nodes[i]
        prev_node_id == route.nodes[i - 1]
        travel_dist == instance.distance_matrix[<<prev_node_id, node_id>>]
        travel_time == instance.time_matrix[<<prev_node_id, node_id>>]
        energy_consumed == travel_dist * instance.consumption_rate
        moved == [st EXCEPT !.current_battery = @ - energy_consumed,
                            !.current_time = @ + travel_time]
    IN  IF st.current_battery < energy_consumed
        THEN [st EXCEPT !.is_feasible = FALSE]
        ELSE IF node_id \in CustomerIds THEN
            LET served == [moved EXCEPT
                              !.current_load = @ + instance.demand[node_id],
                              !.current_time =
                                  @ + instance.service_time[node_id]]
            IN  IF served.current_load > instance.capacity
                THEN [served EXCEPT !.is_feasible = FALSE]
                ELSE VerifyLoop(route, instance, i + 1, served)
        ELSE IF /\ node_id \in StationIds
                /\ node_id \in DOMAIN route.charging_decisions THEN
            IF route.charging_decisions[node_id][1]
                   \notin instance.technologies[node_id]
            THEN [moved EXCEPT !.is_feasible = FALSE]
            ELSE VerifyLoop(route, instance, i + 1,
                            Charge(moved, instance,
                                   route.charging_decisions[node_id]))
        ELSE VerifyLoop(route, instance, i + 1, moved)

\* _verify_route_feasibility (lines 413-482)
verify_route_feasibility(route, instance) ==
    IF Len(route.nodes) = 0 THEN FALSE
    ELSE IF \/ depot_id(instance) = None
            \/ route.nodes[1] # depot_id(instance)
            \/ route.nodes[Len(route.nodes)] # depot_id(instance)
         THEN FALSE
    ELSE LET st == VerifyLoop(route, instance, 2, StartOfWalk(instance))
         IN  /\ st.is_feasible
             /\ ~(st.current_time > instance.max_route_duration)

\* dict without a key (lines 122 and 505-506)
Without(decisions, node) ==
    [n \in DOMAIN decisions \ {node} |-> decisions[n]]

\* _revert_recharge_optimization (lines 484-512)
revert_recharge_optimization(route, customer_sequence, option) ==
    LET route_position ==
            find_route_position(route.nodes,
                                At(customer_sequence, option.position), 0)
    IN  IF route_position = 0 - 1 THEN Cleared(route)
        ELSE Cleared([route EXCEPT
                 !.nodes =
                     IF /\ route_position + 1 < Len(@)
                        /\ At(@, route_position + 1) = option.station
                     THEN Popped(@, route_position + 2) ELSE @,
                 !.charging_decisions = Without(@, option.station)])

\* the position of the first station on the route, or -1 (lines 119-120)
RECURSIVE FirstStation(_, _)
FirstStation(nodes, p) ==
    IF p >= Len(nodes) THEN 0 - 1
    ELSE IF At(nodes, p) \in StationIds THEN p
    ELSE FirstStation(nodes, p + 1)

\* what a call leaves: the route, the value returned, and whether the call
\* raised instead of returning
Outcome(route, value, raised) ==
    [route |-> route, value |-> value, raised |-> raised]

\* the route with the node back at position idx (line 125)
Reinserted(route, node, idx) ==
    [route EXCEPT !.nodes = InsertAt(@, node, idx)]

\* line 126: the charging decision (technologies[0], technologies[0].power)
DefaultDecision(route, node, technologies) ==
    [route EXCEPT
        !.charging_decisions =
            [n \in DOMAIN @ \cup {node} |->
                IF n = node
                THEN <<technologies[1], Technology(technologies[1]).power>>
                ELSE @[n]]]

\* lines 124-129: the route evaluated without the station is kept if it is
\* feasible; otherwise the station is put back with the default decision,
\* and technologies[0] of an empty list raises IndexError
KeepOrPutBack(removed, instance, node, idx, technologies) ==
    IF removed.is_feasible THEN Outcome(removed, TRUE, FALSE)
    ELSE IF technologies = <<>>
    THEN Outcome(Reinserted(removed, node, idx), FALSE, TRUE)
    ELSE Outcome(RouteEvaluate(
                     DefaultDecision(Reinserted(removed, node, idx), node,
                                     technologies),
                     instance),
                 FALSE, FALSE)

\* lines 119-130 at the first station, position idx; dict.pop without
\* default raises KeyError when the station has no charging decision
RemoveStationAt(route, instance, idx, node) ==
    IF node \notin DOMAIN route.charging_decisions
    THEN Outcome([route EXCEPT !.nodes = Popped(@, idx + 1)], FALSE, TRUE)
    ELSE KeepOrPutBack(
             RouteEvaluate([route EXCEPT
                               !.nodes = Popped(@, idx + 1),
                               !.charging_decisions = Without(@, node)],
                           instance),
             instance, node, idx,
             TechnologyList(instance.technologies[node]))

\* lines 118-130: the sequence is within the range, the first station of
\* the route is taken out if the route stays feasible without it
RemoveFirstStation(route, instance, idx) ==
    IF idx = 0 - 1 THEN Outcome(route, FALSE, FALSE)
    ELSE RemoveStationAt(route, instance, idx, At(route.nodes, idx))

\* lines 143-149: the route with the station is kept if it verifies
KeepOrRevert(applied, instance, customer_sequence, option) ==
    IF verify_route_feasibility(applied, instance)
    THEN Outcome(applied, TRUE, FALSE)
    ELSE Outcome(revert_recharge_optimization(applied, customer_sequence,
                                              option),
                 FALSE, FALSE)

\* lines 137-151
ApplyBest(route, instance, customer_sequence, best_improvement) ==
    IF best_improvement = <<>> THEN Outcome(route, FALSE, FALSE)
    ELSE KeepOrRevert(
             apply_recharge_optimization(route, customer_sequence,
                                         best_improvement[1]),
             instance, customer_sequence, best_improvement[1])

\* lines 132-137
OptimizeInterval(route, instance, customer_sequence, interval) ==
    IF interval[1] > interval[2] THEN Outcome(route, FALSE, FALSE)
    ELSE ApplyBest(route, instance, customer_sequence,
                   find_best_recharge_option(customer_sequence, instance,
                                             interval[1], interval[2]))

\* lines 107-132
OptimizeSequence(route, instance, customer_sequence) ==
    IF Len(customer_sequence) < 3 THEN Outcome(route, FALSE, FALSE)
    ELSE IF calculate_total_distance(customer_sequence, instance)
                <= instance.max_range
    THEN RemoveFirstStation(route, instance, FirstStation(route.nodes, 0))
    ELSE OptimizeInterval(route, instance, customer_sequence,
                          find_recharge_interval(customer_sequence, instance,
                                                 instance.max_range))

\* _optimize_route (lines 96-151)
optimize_route(route, instance) ==
    OptimizeSequence(route, instance,
                     extract_customer_sequence(route.nodes, 1))

\* RechargeRealocation.local_search, lines 82-84: the loop over the routes
\* from the r-th on, o the outcome for the r-th; an exception ends it
RECURSIVE OptimizeRoutes(_, _, _, _)
RECURSIVE AfterRoute(_, _, _, _, _)
AfterRoute(routes, instance, r, improved, o) ==
    IF o.raised
    THEN Outcome([routes EXCEPT ![r] = o.route], improved, TRUE)
    ELSE OptimizeRoutes([routes EXCEPT ![r] = o.route], instance, r + 1,
                        improved \/ o.value)

OptimizeRoutes(routes, instance, r, improved) ==
    IF r > Len(routes) THEN Outcome(routes, improved, FALSE)
    ELSE AfterRoute(routes, instance, r, improved,
                    optimize_route(routes[r], instance))

\* lines 86-94: the solution is evaluated if a route was improved
AfterRoutes(sol, instance, o) ==
    IF o.raised THEN Outcome([sol EXCEPT !.routes = o.route], FALSE, TRUE)
    ELSE IF o.value
    THEN Outcome(SolutionEvaluate([sol EXCEPT !.routes = o.route], instance),
                 TRUE, FALSE)
    ELSE Outcome([sol EXCEPT !.routes = o.route], FALSE, FALSE)

\* RechargeRealocation.local_search (lines 70-94): Outcome with the
\* solution in the place of the route
RechargeRealocationLocalSearch(sol, instance) ==
    AfterRoutes(sol, instance, OptimizeRoutes(sol.routes, instance, 1, FALSE))

\* the corners of a rectangle of sides 8 and 6 (diagonal 10), numbered
\* around it: the Euclidean distances of build_matrices
RectangleMatrix(ids, corner, slowness) ==
    [p \in ids \X ids |->
        LET a == corner[p[1]]
            b == corner[p[2]]
        IN  slowness * (IF a = b THEN 0
                        ELSE IF (a + b) % 2 = 0 THEN 10
                        ELSE IF {a, b} \in {{0, 1}, {2, 3}} THEN 8
                        ELSE 6)]

\* depot, customer 1, station, customer 2 around the rectangle
RechargePlaces == [n \in {0, 1, 2, 5} |-> CASE n = 1 -> 1 [] n = 5 -> 2
                                             [] n = 2 -> 3 [] OTHER -> 0]

RechargeInstance(battery_capacity, max_route_duration) ==
    [nodes |-> <<0, 1, 2, 5>>, stations |-> <<5>>,
     distance_matrix |-> RectangleMatrix({0, 1, 2, 5}, RechargePlaces, 1),
     time_matrix |-> RectangleMatrix({0, 1, 2, 5}, RechargePlaces, 1),
     demand |-> [n \in {1, 2} |-> 1],
     service_time |-> [n \in {1, 2} |-> 0],
     technologies |-> [n \in {0, 5} |-> {1}],
     capacity |-> 2, battery_capacity |-> battery_capacity,
     consumption_rate |-> 1, max_range |-> battery_capacity,
     max_route_duration |-> max_route_duration,
     charging_fixed_time |-> 1, battery_depreciation_cost |-> 1,
     num_vehicles |-> 1]

\* a battery short of the round 0-1-2-0 (24) and one that covers it, a
\* tight and a loose duration cap
RechargeInstances ==
    {RechargeInstance(b, t) : b \in {14, 24}, t \in {30, 60}}

\* one route over any choice and order of the two customers and the
\* station, with a charging decision at the station or without
RechargeSolutions ==
    {NewSolution(<<NewRoute(<<0>> \o stops \o <<0>>, cd)>>) :
        stops \in UNION {Shuffles(list) :
                            list \in {<<>>, <<1>>, <<2>>, <<5>>, <<1, 2>>,
                                      <<1, 5>>, <<2, 5>>, <<1, 2, 5>>}},
        cd \in {<<>>, [n \in {5} |-> <<1, 14>>]}}

\* depot, customer 1, and two stations at the corner opposite the depot
TwoStationPlaces == [n \in {0, 1, 5, 6} |-> CASE n = 1 -> 1 [] n = 5 -> 2
                                               [] n = 6 -> 2 [] OTHER -> 0]

TwoStationInstance(battery_capacity, max_route_duration) ==
    [RechargeInstance(battery_capacity, max_route_duration) EXCEPT
        !.nodes = <<0, 1, 5, 6>>,
        !.stations = <<5, 6>>,
        !.distance_matrix = RectangleMatrix({0, 1, 5, 6}, TwoStationPlaces, 1),
        !.time_matrix = RectangleMatrix({0, 1, 5, 6}, TwoStationPlaces, 1),
        !.technologies = [n \in {0, 5, 6} |-> {1}]]

\* a battery that covers the round 0-1-0 (16) and not the way 0-1-6-0 (24),
\* and one that covers both
TwoStationInstances == {TwoStationInstance(b, 60) : b \in {20, 24}}

\* one route over the customer and the two stations in any order, a large
\* charge decided at station 5 and a small or a large one at station 6
TwoStationSolutions ==
    {NewSolution(<<NewRoute(<<0>> \o stops \o <<0>>, cd)>>) :
        stops \in Shuffles(<<1, 5, 6>>),
        cd \in {[n \in {5, 6} |-> IF n = 5 THEN <<1, 14>> ELSE <<1, e>>] :
                   e \in {2, 14}}}

(***************************************************************************)
(* OrOpt (src/src/EVRP/local_search/or_opt.py).  Positions are Python's,   *)
(* counted from 0; routes are counted from 1.  A move is the dict the code *)
(* builds, with one more field, evaluated: the node sequences of the       *)
(* temporary routes the move was evaluated on.  A call that returns a move *)
(* or None yields a sequence of one move or of none.                       *)
(***************************************************************************)
\* OrOpt.__init__: the default of max_segment_size
max_segment_size == 3

\* list(range(a, b))
PyRange(a, b) == [k \in 1..(IF b > a THEN b - a ELSE 0) |-> a + k - 1]

\* the lists of a list of lists, one after the other
RECURSIVE Flatten(_)
Flatten(lists) ==
    IF lists = <<>> THEN <<>> ELSE Head(lists) \o Flatten(Tail(lists))

\* list.insert(position, node): a position past the end appends, a negative
\* one counts from the end
ListInsert(nodes, node, position) ==
    InsertAt(nodes, node,
             IF position > Len(nodes) THEN Len(nodes)
             ELSE IF position >= 0 THEN position
             ELSE IF Len(nodes) + position >= 0 THEN Len(nodes) + position
             ELSE 0)

\* lines 144-145 (297-298, 205-206, 313-314): pop(start_pos), segment_size
\* times
RemoveSegment(nodes, start_pos, segment_size) ==
    SubSeq(nodes, 1, start_pos)
        \o SubSeq(nodes, start_pos + segment_size + 1, Len(nodes))

\* lines 152-153 (305-306, 209-210, 317-318): insert(target_pos + i, node)
\* for the nodes of the segment from the i-th on
RECURSIVE InsertSegment(_, _, _, _)
InsertSegment(nodes, segment, target_pos, i) ==
    IF i >= Len(segment) THEN nodes
    ELSE InsertSegment(ListInsert(nodes, At(segment, i), target_pos + i),
                       segment, target_pos, i + 1)

\* lines 148-149 (301-302): the target position counted without the segment
AdjustedTarget(target_pos, start_pos, segment_size) ==
    IF target_pos > start_pos THEN target_pos - segment_size ELSE target_pos

\* the segment taken out of nodes and put in at target_pos
SegmentMoved(nodes, start_pos, segment_size, target_pos) ==
    InsertSegment(RemoveSegment(nodes, start_pos, segment_size),
                  SubSeq(nodes, start_pos + 1, start_pos + segment_size),
                  target_pos, 0)

\* lines 155-176: the move, once the temporary route is evaluated
IntraMoveOf(sol, route_idx, start_pos, segment_size, target_pos, temp_route) ==
    IF ~temp_route.is_feasible THEN <<>>
    ELSE <<[type |-> "intra_route",
            source_route_idx |-> route_idx,
            target_route_idx |-> route_idx,
            start_pos |-> start_pos,
            segment_size |-> segment_size,
            target_pos |-> target_pos,
            segment |-> SubSeq(sol.routes[route_idx].nodes, start_pos + 1,
                               start_pos + segment_size),
            improvement |-> sol.routes[route_idx].total_cost
                              - temp_route.total_cost,
            evaluated |-> <<temp_route.nodes>>]>>

\* _evaluate_intra_route_segment_move (lines 121-176)
evaluate_intra_route_segment_move(sol, instance, route_idx, start_pos, segment_size, target_pos) ==
    IntraMoveOf(sol, route_idx, start_pos, segment_size,
                AdjustedTarget(target_pos, start_pos, segment_size),
                RouteEvaluate(
                    NewRoute(SegmentMoved(
                                 sol.routes[route_idx].nodes, start_pos,
                                 segment_size,
                                 AdjustedTarget(target_pos, start_pos,
                                                segment_size)),
                             sol.routes[route_idx].charging_decisions),
                    instance))

\* lines 212-235: the move, once the two temporary routes are evaluated
InterMoveOf(sol, source_route_idx, start_pos, segment_size, target_route_idx, target_pos, temp_source, temp_target) ==
    IF ~temp_source.is_feasible \/ ~temp_target.is_feasible THEN <<>>
    ELSE <<[type |-> "inter_route",
            source_route_idx |-> source_route_idx,
            target_route_idx |-> target_route_idx,
            start_pos |-> start_pos,
            segment_size |-> segment_size,
            target_pos |-> target_pos,
            segment |-> SubSeq(sol.routes[source_route_idx].nodes,
                               start_pos + 1, start_pos + segment_size),
            improvement |-> sol.routes[source_route_idx].total_cost
                              + sol.routes[target_route_idx].total_cost
                              - temp_source.total_cost
                              - temp_target.total_cost,
            evaluated |-> <<temp_source.nodes, temp_target.nodes>>]>>

\* _evaluate_inter_route_segment_move (lines 178-235)
evaluate_inter_route_segment_move(sol, instance, source_route_idx, start_pos, segment_size, target_route_idx, target_pos) ==
    InterMoveOf(sol, source_route_idx, start_pos, segment_size,
                target_route_idx, target_pos,
                RouteEvaluate(
                    NewRoute(RemoveSegment(sol.routes[source_route_idx].nodes,
                                           start_pos, segment_size),
                             sol.routes[source_route_idx].charging_decisions),
                    instance),
                RouteEvaluate(
                    NewRoute(InsertSegment(
                                 sol.routes[target_route_idx].nodes,
                                 SubSeq(sol.routes[source_route_idx].nodes,
                                        start_pos + 1,
                                        start_pos + segment_size),
                                 target_pos, 0),
                             sol.routes[target_route_idx].charging_decisions),
                    instance))

\* lines 251-256 (73-78): the <<segment_size, start_pos>> of the segments of
\* customers of a route, in the order of the two loops
SegmentsOf(nodes) ==
    LET sizes == PyRange(1, IF max_segment_size + 1 < Len(nodes) - 1
                            THEN max_segment_size + 1 ELSE Len(nodes) - 1)
    IN  Flatten([a \in 1..Len(sizes) |->
            LET starts == PyRange(1, Len(nodes) - sizes[a])
            IN  Flatten([b \in 1..Len(starts) |->
                    IF \A k \in (starts[b] + 1)..(starts[b] + sizes[a]) :
                           nodes[k] \in CustomerIds
                    THEN <<<<sizes[a], starts[b]>>>> ELSE <<>>])])

\* lines 258-267 (81-91): the moves of a segment within its route
IntraMovesOf(sol, instance, route_idx, segment_size, start_pos) ==
    LET targets == PyRange(1, Len(sol.routes[route_idx].nodes)
                                  - segment_size + 1)
    IN  Flatten([c \in 1..Len(targets) |->
            IF targets[c] = start_pos THEN <<>>
            ELSE evaluate_intra_route_segment_move(
                     sol, instance, route_idx, start_pos, segment_size,
                     targets[c])])

\* lines 277-288 (94-106): the moves of a segment into the other routes
InterMovesOf(sol, instance, source_route_idx, segment_size, start_pos) ==
    Flatten([target_route_idx \in 1..Len(sol.routes) |->
        IF target_route_idx = source_route_idx THEN <<>>
        ELSE LET targets ==
                     PyRange(1, Len(sol.routes[target_route_idx].nodes))
             IN  Flatten([c \in 1..Len(targets) |->
                     evaluate_inter_route_segment_move(
                         sol, instance, source_route_idx, start_pos,
                         segment_size, target_route_idx, targets[c])])])

\* lines 247-288: valid_moves, the moves within the routes first
valid_moves(sol, instance) ==
    Flatten([r \in 1..Len(sol.routes) |->
        LET segments == SegmentsOf(sol.routes[r].nodes)
        IN  Flatten([g \in 1..Len(segments) |->
                IntraMovesOf(sol, instance, r, segments[g][1],
                             segments[g][2])])])
    \o Flatten([r \in 1..Len(sol.routes) |->
        LET segments == SegmentsOf(sol.routes[r].nodes)
        IN  Flatten([g \in 1..Len(segments) |->
                InterMovesOf(sol, instance, r, segments[g][1],
                             segments[g][2])])])

\* lines 72-106: the moves in the order _relocate_segments meets them
moves_in_order(sol, instance) ==
    Flatten([r \in 1..Len(sol.routes) |->
        LET segments == SegmentsOf(sol.routes[r].nodes)
        IN  Flatten([g \in 1..Len(segments) |->
                IntraMovesOf(sol, instance, r, segments[g][1],
                             segments[g][2])
                \o InterMovesOf(sol, instance, r, segments[g][1],
                                segments[g][2])])])

\* lines 68-69, 89-91, 104-106: best_move, the first move of the largest
\* improvement above 0
RECURSIVE BestMoveFrom(_, _, _, _)
BestMoveFrom(moves, i, best_move, best_improvement) ==
    IF i > Len(moves) THEN best_move
    ELSE IF moves[i].improvement > best_improvement
    THEN BestMoveFrom(moves, i + 1, <<moves[i]>>, moves[i].improvement)
    ELSE BestMoveFrom(moves, i + 1, best_move, best_improvement)

\* lines 108-110 and 291: the moves _relocate_segments can settle on
ChosenMoves(best_move, force_move, valid) ==
    IF best_move # <<>> THEN {best_move[1]}
    ELSE IF force_move THEN {valid[k] : k \in 1..Len(valid)}
    ELSE {}

\* lines 294-306: a move within a route applied
ApplyIntra(sol, move) ==
    [sol EXCEPT
        !.routes[move.source_route_idx].nodes =
            InsertSegment(
                RemoveSegment(@, move.start_pos, move.segment_size),
                move.segment,
                AdjustedTarget(move.target_pos, move.start_pos,
                               move.segment_size),
                0)]

\* lines 322-323: a source route left with its depots only is dropped
DropEmptied(sol, source_route_idx) ==
    IF Len(sol.routes[source_route_idx].nodes) <= 2
    THEN [sol EXCEPT !.routes = Popped(@, source_route_idx)]
    ELSE sol

\* lines 308-323: a move between two routes applied
ApplyInter(sol, move) ==
    DropEmptied(
        [sol EXCEPT
            !.routes[move.source_route_idx].nodes =
                RemoveSegment(@, move.start_pos, move.segment_size),
            !.routes[move.target_route_idx].nodes =
                InsertSegment(@, move.segment, move.target_pos, 0)],
        move.source_route_idx)

\* _apply_segment_move (lines 291-323)
apply_segment_move(sol, move) ==
    IF move.type = "intra_route" THEN ApplyIntra(sol, move)
    ELSE ApplyInter(sol, move)

\* lines 112-118: the move applied, or the solution left as it is
AppliedOrLeft(sol, moves) ==
    IF moves = {} THEN {<<sol, <<>>>>}
    ELSE {<<apply_segment_move(sol, move), <<move>>>> : move \in moves}

\* _relocate_segments (lines 58-118): the pairs <<solution left, move
\* applied>> a call can end with
relocate_segments(sol, instance, force_move) ==
    AppliedOrLeft(sol,
                  ChosenMoves(BestMoveFrom(moves_in_order(sol, instance), 1,
                                           <<>>, 0),
                              force_move, valid_moves(sol, instance)))

\* the place of a move in a list of moves, counted from 1; 0 for no move
PlaceOf(list, move) ==
    IF move = <<>> THEN 0
    ELSE CHOOSE k \in 1..Len(list) :
             /\ list[k] = move[1]
             /\ \A j \in 1..(k - 1) : list[j] # move[1]

\* routes over the four customers of the line, one route or two
OrOptInstances == {SplitInstance(t, 2) : t \in {18, 40}}

OrOptSolutions ==
    {NewSolution(<<NewRoute(<<0>> \o stops \o <<0>>, <<>>)>>) :
        stops \in UNION {Shuffles(list) :
                            list \in {<<1, 2, 3>>, <<1, 2, 3, 4>>}}}
    \cup {NewSolution(<<NewRoute(<<0>> \o first \o <<0>>, <<>>),
                        NewRoute(<<0>> \o second \o <<0>>, <<>>)>>) :
             first \in Shuffles(<<1, 2>>), second \in Shuffles(<<3, 4>>)}

(***************************************************************************)
(* Exchange (src/src/EVRP/local_search/exchange.py).  Positions are        *)
(* Python's, counted from 0; routes are counted from 1.  A call that       *)
(* returns a move or None yields a sequence of one move or of none.        *)
(***************************************************************************)
\* Exchange.__init__: the default of max_iter
exchange_max_iter == 10

\* nodes[idx] = node
Assigned(nodes, idx, node) == [nodes EXCEPT ![idx + 1] = node]

\* lines 213-232: the move, once the two temporary routes are evaluated
InterExchangeOf(sol, route1_idx, customer1_idx, route2_idx, customer2_idx, temp_route1, temp_route2) ==
    IF ~temp_route1.is_feasible \/ ~temp_route2.is_feasible THEN <<>>
    ELSE <<[type |-> "inter_route",
            route1_idx |-> route1_idx, customer1_idx |-> customer1_idx,
            route2_idx |-> route2_idx, customer2_idx |-> customer2_idx,
            customer1 |-> At(sol.routes[route1_idx].nodes, customer1_idx),
            customer2 |-> At(sol.routes[route2_idx].nodes, customer2_idx),
            improvement |-> sol.routes[route1_idx].total_cost
                              + sol.routes[route2_idx].total_cost
                              - temp_route1.total_cost
                              - temp_route2.total_cost]>>

\* _evaluate_inter_route_exchange (lines 180-232)
evaluate_inter_route_exchange(sol, instance, route1_idx, customer1_idx, route2_idx, customer2_idx) ==
    InterExchangeOf(
        sol, route1_idx, customer1_idx, route2_idx, customer2_idx,
        RouteEvaluate(
            NewRoute(Assigned(sol.routes[route1_idx].nodes, customer1_idx,
                              At(sol.routes[route2_idx].nodes, customer2_idx)),
                     sol.routes[route1_idx].charging_decisions),
            instance),
        RouteEvaluate(
            NewRoute(Assigned(sol.routes[route2_idx].nodes, customer2_idx,
                              At(sol.routes[route1_idx].nodes, customer1_idx)),
                     sol.routes[route2_idx].charging_decisions),
            instance))

\* lines 262-277: the move, once the temporary route is evaluated
IntraExchangeOf(sol, route_idx, customer1_idx, customer2_idx, temp_route) ==
    IF ~temp_route.is_feasible THEN <<>>
    ELSE <<[type |-> "intra_route",
            route1_idx |-> route_idx, customer1_idx |-> customer1_idx,
            route2_idx |-> route_idx, customer2_idx |-> customer2_idx,
            customer1 |-> At(sol.routes[route_idx].nodes, customer1_idx),
            customer2 |-> At(sol.routes[route_idx].nodes, customer2_idx),
            improvement |-> sol.routes[route_idx].total_cost
                              - temp_route.total_cost]>>

\* _evaluate_intra_route_exchange (lines 234-277)
evaluate_intra_route_exchange(sol, instance, route_idx, customer1_idx, customer2_idx) ==
    IntraExchangeOf(
        sol, route_idx, customer1_idx, customer2_idx,
        RouteEvaluate(
            NewRoute(Assigned(Assigned(sol.routes[route_idx].nodes,
                                       customer1_idx,
                                       At(sol.routes[route_idx].nodes,
                                          customer2_idx)),
                              customer2_idx,
                              At(sol.routes[route_idx].nodes, customer1_idx)),
                     sol.routes[route_idx].charging_decisions),
            instance))

\* lines 125-136 (296-308): the feasible exchanges between two routes, in
\* the order of the two loops
InterExchanges(sol, instance, route1_idx, route2_idx) ==
    Flatten([a \in 1..Len(sol.routes[route1_idx].nodes) |->
        IF sol.routes[route1_idx].nodes[a] \notin CustomerIds THEN <<>>
        ELSE Flatten([b \in 1..Len(sol.routes[route2_idx].nodes) |->
                 IF sol.routes[route2_idx].nodes[b] \notin CustomerIds
                 THEN <<>>
                 ELSE evaluate_inter_route_exchange(
                          sol, instance, route1_idx, a - 1, route2_idx,
                          b - 1)])])

\* lines 160-172 (314-329): the feasible exchanges within a route
IntraExchanges(sol, instance, route_idx) ==
    LET nodes == sol.routes[route_idx].nodes
    IN  Flatten([a \in 1..Len(nodes) |->
            IF a = 1 \/ a = Len(nodes) \/ nodes[a] \notin CustomerIds
            THEN <<>>
            ELSE Flatten([b \in 1..Len(nodes) |->
                     IF b <= a \/ b = Len(nodes) \/ nodes[b] \notin CustomerIds
                     THEN <<>>
                     ELSE evaluate_intra_route_exchange(
                              sol, instance, route_idx, a - 1, b - 1)])])

\* variant: a move that leaves the cost as it is counts as an improvement
RECURSIVE BestExchangeFrom_or_equal(_, _, _, _)
BestExchangeFrom_or_equal(moves, i, best_move, best_improvement) ==
    IF i > Len(moves) THEN best_move
    ELSE IF moves[i].improvement >= best_improvement
    THEN BestExchangeFrom_or_equal(moves, i + 1, <<moves[i]>>,
                                   moves[i].improvement)
    ELSE BestExchangeFrom_or_equal(moves, i + 1, best_move, best_improvement)

\* lines 121-138 (156-174, 75-90): best_move, the first move of the largest
\* improvement above 0
RECURSIVE BestExchangeFrom(_, _, _, _)
BestExchangeFrom(moves, i, best_move, best_improvement) ==
    IF i > Len(moves) THEN best_move
    ELSE IF moves[i].improvement > best_improvement
    THEN BestExchangeFrom(moves, i + 1, <<moves[i]>>, moves[i].improvement)
    ELSE BestExchangeFrom(moves, i + 1, best_move, best_improvement)

\* _find_best_inter_route_exchange (lines 106-138)
find_best_inter_route_exchange(sol, instance, route1_idx, route2_idx) ==
    BestExchangeFrom(InterExchanges(sol, instance, route1_idx, route2_idx),
                     1, <<>>, 0)

\* _find_best_intra_route_exchange (lines 140-174)
find_best_intra_route_exchange(sol, instance, route_idx) ==
    BestExchangeFrom(IntraExchanges(sol, instance, route_idx), 1, <<>>, 0)

\* lines 78-90: the best moves of the pairs of routes, then of the routes
BestPerPlace(sol, instance) ==
    Flatten([route1_idx \in 1..Len(sol.routes) |->
        Flatten([route2_idx \in 1..Len(sol.routes) |->
            IF route2_idx <= route1_idx THEN <<>>
            ELSE find_best_inter_route_exchange(sol, instance, route1_idx,
                                                route2_idx)])])
    \o Flatten([route_idx \in 1..Len(sol.routes) |->
           find_best_intra_route_exchange(sol, instance, route_idx)])

\* _select_random_exchange_move, lines 289-329: valid_moves
valid_exchange_moves(sol, instance) ==
    Flatten([route1_idx \in 1..Len(sol.routes) |->
        Flatten([route2_idx \in 1..Len(sol.routes) |->
            IF route2_idx <= route1_idx THEN <<>>
            ELSE InterExchanges(sol, instance, route1_idx, route2_idx)])])
    \o Flatten([route_idx \in 1..Len(sol.routes) |->
           IntraExchanges(sol, instance, route_idx)])

\* _apply_exchange_move (lines 334-355)
apply_exchange_move(sol, move) ==
    IF move.type = "inter_route"
    THEN [sol EXCEPT
             !.routes[move.route1_idx].nodes =
                 Assigned(@, move.customer1_idx, move.customer2),
             !.routes[move.route2_idx].nodes =
                 Assigned(@, move.customer2_idx, move.customer1)]
    ELSE [sol EXCEPT
             !.routes[move.route1_idx].nodes =
                 Assigned(Assigned(@, move.customer1_idx, move.customer2),
                          move.customer2_idx, move.customer1)]

\* lines 92-101: the solutions a call of _exchange_customers can leave
\* after a move; none when no move is made
ExchangedBy(sol, best_move, force_move, valid) ==
    IF best_move # <<>> THEN {apply_exchange_move(sol, best_move[1])}
    ELSE IF force_move
    THEN {apply_exchange_move(sol, valid[k]) : k \in 1..Len(valid)}
    ELSE {}

\* _exchange_customers (lines 62-101)
exchange_customers(sol, instance, force_move) ==
    ExchangedBy(sol, BestExchangeFrom(BestPerPlace(sol, instance), 1, <<>>, 0),
                force_move, valid_exchange_moves(sol, instance))

\* Exchange.local_search, lines 38-46: the loop from the given iteration
\* on, moved the solutions the call of _exchange_customers has left (one or
\* none, force_move being False); the value is <<solution, improved>>
RECURSIVE ExchangeLoop(_, _, _, _)
RECURSIVE AfterExchange(_, _, _, _, _)
AfterExchange(sol, instance, iteration, improved, moved) ==
    IF moved = {} THEN <<sol, improved>>
    ELSE ExchangeLoop(SolutionEvaluate(CHOOSE s \in moved : TRUE, instance),
                      instance, iteration + 1, TRUE)

ExchangeLoop(sol, instance, iteration, improved) ==
    IF iteration >= exchange_max_iter THEN <<sol, improved>>
    ELSE AfterExchange(sol, instance, iteration, improved,
                       exchange_customers(sol, instance, FALSE))

\* Exchange.local_search (lines 22-47)
ExchangeLocalSearch(sol, instance) ==
    IF Len(sol.routes) < 1 THEN <<sol, FALSE>>
    ELSE ExchangeLoop(sol, instance, 0, FALSE)

\* tight and loose duration cap, two vehicles
ExchangeInstances ==
    {EvalInstance(<<0, 1, 2, 5>>, 8, 2, t, 2) : t \in {12, 20}}

\* routes over the two customers and the station, with no charging
\* decision, one at the station, or one at the station and one at the
\* depot; the cached fields are those Route.evaluate leaves
ExchangeRoutes(instance) ==
    {RouteEvaluate(NewRoute(<<0>> \o stops \o <<0>>, cd), instance) :
        stops \in {<<1>>, <<2>>, <<1, 2>>, <<2, 1>>, <<1, 5>>, <<5, 2>>,
                   <<1, 5, 2>>, <<2, 1, 5>>},
        cd \in {<<>>, [n \in {5} |-> <<2, 4>>], [n \in {0, 5} |-> <<1, 2>>]}}

\* the route with a cached total_cost that no evaluator has left: higher
\* by extra
WithStaleCost(route, extra) == [route EXCEPT !.total_cost = @ + extra]

\* solutions of one route or two with the evaluator's cached costs, and of
\* one route with a stale one
ExchangeSolutions(instance) ==
    {NewSolution(<<first>> \o rest) :
        first \in ExchangeRoutes(instance),
        rest \in {<<>>} \cup {<<second>> : second \in ExchangeRoutes(instance)}}
    \cup {NewSolution(<<WithStaleCost(first, 2)>>) :
              first \in ExchangeRoutes(instance)}

(***************************************************************************)
(* DepotReassignment (src/src/EVRP/local_search/depot_reassignment.py).    *)
(* A random choice is the set of the results it can give.                  *)
(***************************************************************************)
\* DepotReassignment.__init__: the default of k
reassignment_k == 2

\* lines 92-100: the depots other than the given one
available_depots(instance, original) ==
    {instance.depots[d] : d \in 1..Len(instance.depots)} \ {original}

\* lines 116-132: the charging decisions without those of the original
\* depots and with the first technology and a full battery at the new ones
ReassignedDecisions(route, instance, new_start, new_end) ==
    LET original_start == route.nodes[1]
        original_end == route.nodes[Len(route.nodes)]
    IN  [n \in (DOMAIN route.charging_decisions
                  \ {original_start, original_end}) \cup {new_start, new_end}
           |-> IF n \in {new_start, new_end}
               THEN <<instance.technology_list[1], instance.battery_capacity>>
               ELSE route.charging_decisions[n]]

\* lines 112-135: the route with the new depots, evaluated
TryDepots(route, instance, new_start, new_end) ==
    RouteEvaluate(
        [route EXCEPT
            !.nodes = [[@ EXCEPT ![1] = new_start]
                          EXCEPT ![Len(route.nodes)] = new_end],
            !.charging_decisions =
                ReassignedDecisions(route, instance, new_start, new_end)],
        instance)

\* lines 109-137: the routes the two loops can stop at, the two lists
\* having been shuffled
FeasibleReassignments(route, instance) ==
    {t \in {TryDepots(route, instance, new_start, new_end) :
               new_start \in available_depots(instance, route.nodes[1]),
               new_end \in available_depots(instance,
                                            route.nodes[Len(route.nodes)])} :
        t.is_feasible}

\* variant: the last combination tried is kept when none is feasible
KeptOrRestored_no_rollback(route, instance, kept) ==
    IF kept # {} THEN kept
    ELSE {TryDepots(route, instance, new_start, new_end) :
             new_start \in available_depots(instance, route.nodes[1]),
             new_end \in available_depots(instance,
                                          route.nodes[Len(route.nodes)])}

\* lines 136-143: a feasible reassignment is kept; with none the original
\* ends and decisions are put back and the route is evaluated
KeptOrRestored(route, instance, kept) ==
    IF kept # {} THEN kept ELSE {RouteEvaluate(route, instance)}

\* _reassign_route_to_different_depot (lines 73-143): the routes it can
\* leave
reassign_route_to_different_depot(route, instance) ==
    IF Len(route.nodes) < 2 THEN {route}
    ELSE IF \/ available_depots(instance, route.nodes[1]) = {}
            \/ available_depots(instance, route.nodes[Len(route.nodes)]) = {}
    THEN {route}
    ELSE KeptOrRestored(route, instance,
                        FeasibleReassignments(route, instance))

\* min(a, b)
Min2(a, b) == IF a < b THEN a ELSE b

\* lines 60-63: random.sample of min(k, len(routes)) routes
routes_to_reassign(sol) ==
    {S \in SUBSET (1..Len(sol.routes)) :
        Cardinality(S) = Min2(reassignment_k, Len(sol.routes))}

\* lines 65-66: the lists of routes the loop can leave
ReassignedRoutes(sol, instance, sample) ==
    LET outcomes == [r \in 1..Len(sol.routes) |->
                        IF r \in sample
                        THEN reassign_route_to_different_depot(sol.routes[r],
                                                               instance)
                        ELSE {sol.routes[r]}]
    IN  {routes \in [1..Len(sol.routes) ->
                        UNION {outcomes[r] : r \in 1..Len(sol.routes)}] :
            \A r \in 1..Len(sol.routes) : routes[r] \in outcomes[r]}

\* DepotReassignment.perturbation (lines 42-71): the solutions it can
\* return
DepotReassignmentPerturbation(sol, instance) ==
    IF Len(sol.routes) < 2 THEN {sol}
    ELSE {SolutionEvaluate([sol EXCEPT !.routes = routes], instance) :
             routes \in UNION {ReassignedRoutes(sol, instance, sample) :
                                  sample \in routes_to_reassign(sol)}}

\* the first depot and customer 1 at 0 and 1, customer 2 at 2, the other
\* depots at 1 and 3
DepotPlaces == [n \in {0, 1, 2, 8, 9} |-> CASE n = 1 -> 1 [] n = 2 -> 2
                                            [] n = 8 -> 1 [] n = 9 -> 3
                                            [] OTHER -> 0]

\* an instance of the given depots and two customers, no station
DepotInstance(depots, max_route_duration) ==
    [nodes |-> depots \o <<1, 2>>, depots |-> depots, stations |-> <<>>,
     distance_matrix |-> LineMatrix({0, 1, 2, 8, 9}, DepotPlaces, 1),
     time_matrix |-> LineMatrix({0, 1, 2, 8, 9}, DepotPlaces, 1),
     demand |-> [n \in {1, 2} |-> 1],
     service_time |-> [n \in {1, 2} |-> IF n = 2 THEN 2 ELSE 0],
     technologies |-> [n \in {0, 8, 9} |-> {1}],
     technology_list |-> <<1, 2>>,
     capacity |-> 2, battery_capacity |-> 8,
     consumption_rate |-> 1, max_range |-> 8,
     max_route_duration |-> max_route_duration,
     charging_fixed_time |-> 1, battery_depreciation_cost |-> 1,
     num_vehicles |-> 3]

\* one, two and three depots; a duration cap that leaves no time to charge
\* a full battery and one that does
DepotInstances ==
    {DepotInstance(depots, t) :
        depots \in {<<0>>, <<0, 9>>, <<0, 8, 9>>}, t \in {8, 30}}

\* evaluated routes: from the first depot and back, with or without a
\* charging decision at it, a route of the depot alone, and routes that
\* start or end at another depot
DepotRoutes(instance) ==
    {RouteEvaluate(NewRoute(nodes, cd), instance) :
        nodes \in {<<0, 0>>, <<0, 1, 0>>, <<0, 1, 2, 0>>, <<0>>},
        cd \in {<<>>, [n \in {0} |-> <<1, 2>>]}}
    \cup {RouteEvaluate(NewRoute(nodes, <<>>), instance) :
             nodes \in {<<9, 1, 9>>, <<8, 2, 0>>}}

\* solutions of one, two or three routes
DepotSolutions(instance) ==
    {NewSolution(routes) :
        routes \in UNION {[1..n -> DepotRoutes(instance)] : n \in 1..3}}

(***************************************************************************)
(* Direct calls of update_archive: any archive list and any batch, then    *)
(* the returned list handed in again with a further batch, as GVNS.run     *)
(* does.                                                                   *)
(***************************************************************************)
VARIABLES
    \* a direct call of update_archive
    upc, in_archive, new_solutions, out_archive, changed,
    \* GVNS.__init__: the configuration
    na, ns, ls_max_iter, max_evaluations,
    pertubation_algorithms,    \* the length of the list
    local_search_algorithms,   \* the length of the list
    \* GVNS.run
    pc, initial_population, pop_i, archive, x, ls_iter, archive_changed, result,
    evaluation_count,
    \* GVNS.perturbation
    perturbed_sol, pert_idx,
    \* who else holds the object perturbed_sol and candidate are bound to:
    \* "own" (nobody: a copy), "x" (the archive member selected) or
    \* "initial" (the solution of the initial population being seeded)
    perturbed_owner, candidate_owner,
    \* GVNS.local_search and GVNS._improve_solution
    caller, iterate, candidate, round, local_solutions, method_idx, restarts,
    \* history: operator invocations and local-search rounds so far
    op_calls, ls_rounds,
    \* a call of an evaluator or of an operator: the instance, the solution
    \* worked on, the solution as it was before the call, the position of
    \* the caller and the value returned
    instance, solution, before, wpc, ret

avars == <<upc, in_archive, new_solutions, out_archive, changed>>

cfgvars == <<ns, ls_max_iter, max_evaluations, pertubation_algorithms,
             local_search_algorithms>>

runvars == <<pc, initial_population, pop_i, archive, x, ls_iter, archive_changed,
             result, evaluation_count>>

pertvars == <<perturbed_sol, pert_idx>>

lsvars == <<caller, iterate, candidate, round, local_solutions, method_idx,
            restarts>>

histvars == <<op_calls, ls_rounds>>

ownvars == <<perturbed_owner, candidate_owner>>

evars == <<cfgvars, runvars, pertvars, lsvars, histvars, ownvars>>

wvars == <<instance, solution, before, wpc, ret>>

vars == <<avars, na, evars, wvars>>

\* a solution nobody reads: the value of a variable not yet assigned
NoSolution == [d |-> 0, c |-> 0, v |-> 1, f |-> FALSE]

\* the engine before run is called
EngineIdle ==
    /\ ns = 0 /\ ls_max_iter = 0 /\ max_evaluations = 0
    /\ pertubation_algorithms = 0 /\ local_search_algorithms = 0
    /\ pc = "idle" /\ initial_population = <<>> /\ pop_i = 1
    /\ archive = <<>> /\ x = NoSolution /\ ls_iter = 0
    /\ archive_changed = FALSE /\ result = <<>> /\ evaluation_count = 0
    /\ perturbed_sol = NoSolution /\ pert_idx = 0
    /\ caller = "none" /\ iterate = FALSE /\ candidate = NoSolution
    /\ round = 0 /\ local_solutions = <<>> /\ method_idx = 0
    /\ restarts = 0 /\ op_calls = 0 /\ ls_rounds = 0
    /\ perturbed_owner = "own" /\ candidate_owner = "own"

\* no call of update_archive is modelled
ArchiveIdle ==
    /\ upc = "none" /\ in_archive = <<>> /\ new_solutions = <<>>
    /\ out_archive = <<>> /\ changed = FALSE

\* no call of an evaluator or of an operator is modelled
WorldIdle ==
    /\ instance = EvalInstance(<<>>, 0, 0, 0, 0)
    /\ solution = NewSolution(<<>>) /\ before = NewSolution(<<>>)
    /\ wpc = "idle" /\ ret = 0

InitArchive ==
    /\ upc = "call"
    /\ na \in 1..MaxNA
    /\ in_archive \in SeqUpTo(Solutions, MaxInput)
    /\ new_solutions \in SeqUpTo(Solutions, MaxInput - Len(in_archive))
    /\ out_archive = <<>>
    /\ changed = FALSE
    /\ EngineIdle
    /\ WorldIdle

\* archive, changed = self.update_archive(archive, local_solutions)
CallUpdateArchive ==
    /\ upc = "call"
    /\ LET r == update_archive(in_archive, new_solutions, na)
       IN  /\ out_archive' = r[1]
           /\ changed' = r[2]
    /\ upc' = "returned"
    /\ UNCHANGED <<in_archive, new_solutions, na, evars, wvars>>

\* archive, _ = ...: the returned list becomes the archive (GVNS.run, lines
\* 270 and 328)
Rebind ==
    /\ upc = "returned"
    /\ in_archive' = out_archive
    /\ new_solutions' = <<>>
    /\ out_archive' = <<>>
    /\ changed' = FALSE
    /\ upc' = "collect"
    /\ UNCHANGED <<na, evars, wvars>>

\* a further batch of local-search results for the next call
NextBatch ==
    /\ upc = "collect"
    /\ new_solutions' \in SeqUpTo(Solutions, MaxBatch)
    /\ upc' = "call"
    /\ UNCHANGED <<in_archive, na, out_archive, changed, evars, wvars>>

NextArchive == CallUpdateArchive \/ Rebind \/ NextBatch

SpecArchive == InitArchive /\ [][NextArchive]_vars

(***************************************************************************)
(* GVNS.run.  The operators are the plug-ins of the engine: a call of an   *)
(* operator is a step that returns; what it leaves behind, once evaluate() *)
(* has run, is any solution of OperatorResults.                            *)
(***************************************************************************)
\* solutions an operator chain followed by evaluate() can leave
OperatorResults ==
    {[d |-> 0, c |-> 1, v |-> 1, f |-> TRUE],
     [d |-> 1, c |-> 0, v |-> 1, f |-> TRUE],
     [d |-> 1, c |-> 1, v |-> 1, f |-> TRUE],
     NoSolution}

\* solutions of the initial population
InitialSolutions ==
    {[d |-> 2, c |-> 2, v |-> 2, f |-> TRUE], NoSolution}

\* variant: the name is bound to the object itself, no copy is made
deepcopy_same_object(owner) == owner

\* copy.deepcopy (lines 201, 216, 229 and 237): the copy is held by nobody
\* else, whoever holds the object copied
deepcopy(owner) == "own"

\* the list after an operator has changed, in place, the member equal to old
WrittenThrough(list, old, new) ==
    [k \in 1..Len(list) |-> IF list[k] = old THEN new ELSE list[k]]

Init ==
    /\ upc = "none" /\ in_archive = <<>> /\ new_solutions = <<>>
    /\ out_archive = <<>> /\ changed = FALSE
    /\ na \in 1..MaxNA
    /\ ns \in 0..MaxNS
    /\ ls_max_iter \in 0..MaxLsIter
    /\ max_evaluations \in 0..MaxEval
    /\ pertubation_algorithms \in 0..MaxPert
    /\ local_search_algorithms \in 1..MaxLS
    /\ initial_population \in SeqUpTo(InitialSolutions, MaxPop)
    /\ pc = "seed" /\ pop_i = 1
    /\ archive = <<>> /\ x = NoSolution /\ ls_iter = 0
    /\ archive_changed = FALSE /\ result = <<>> /\ evaluation_count = 0
    /\ perturbed_sol = NoSolution /\ pert_idx = 0
    /\ caller = "none" /\ iterate = FALSE /\ candidate = NoSolution
    /\ round = 0 /\ local_solutions = <<>> /\ method_idx = 0
    /\ restarts = 0 /\ op_calls = 0 /\ ls_rounds = 0
    /\ perturbed_owner = "own" /\ candidate_owner = "own"
    /\ WorldIdle

\* lines 258-264: an infeasible initial solution is skipped
SeedSkipInfeasible ==
    /\ pc = "seed"
    /\ pop_i <= Len(initial_population)
    /\ ~initial_population[pop_i].f
    /\ pop_i' = pop_i + 1
    /\ UNCHANGED <<avars, wvars, ownvars, na, cfgvars, pc, initial_population, archive, x,
                   ls_iter, archive_changed, result, evaluation_count,
                   pertvars, lsvars, histvars>>

\* lines 258-267 and 215-216: local_search(solution, False) is entered
SeedLocalSearch ==
    /\ pc = "seed"
    /\ pop_i <= Len(initial_population)
    /\ initial_population[pop_i].f
    /\ caller' = "seed"
    /\ iterate' = FALSE
    /\ candidate' = initial_population[pop_i]
    /\ candidate_owner' = deepcopy("initial")
    /\ local_solutions' = <<>>
    /\ round' = 0
    /\ pc' = "ls_loop"
    /\ UNCHANGED <<avars, wvars, perturbed_owner, na, cfgvars,
                   initial_population, pop_i, archive, x,
                   ls_iter, archive_changed, result, evaluation_count,
                   pertvars, method_idx, restarts, histvars>>

\* line 258: the initial population is exhausted
SeedExhausted ==
    /\ pc = "seed"
    /\ pop_i > Len(initial_population)
    /\ pc' = "seed_end"
    /\ UNCHANGED <<avars, wvars, ownvars, na, cfgvars, initial_population, pop_i, archive, x,
                   ls_iter, archive_changed, result, evaluation_count,
                   pertvars, lsvars, histvars>>

\* variant: a round of local search without the budget test of line 218
LocalSearchRound_no_budget_test ==
    /\ pc = "ls_loop"
    /\ round < ns
    /\ evaluation_count' = evaluation_count + 1
    /\ ls_rounds' = ls_rounds + 1
    /\ candidate_owner' = deepcopy(candidate_owner)
    /\ method_idx' = 0
    /\ restarts' = 0
    /\ pc' = "improve"
    /\ UNCHANGED <<avars, wvars, perturbed_owner, na, cfgvars,
                   initial_population, pop_i, archive, x,
                   ls_iter, archive_changed, result, pertvars, caller,
                   iterate, candidate, round, local_solutions, op_calls>>

\* lines 217-221 and 201-202: a round of local search starts
LocalSearchRound ==
    /\ pc = "ls_loop"
    /\ round < ns
    /\ evaluation_count < max_evaluations
    /\ evaluation_count' = evaluation_count + 1
    /\ ls_rounds' = ls_rounds + 1
    /\ candidate_owner' = deepcopy(candidate_owner)
    /\ method_idx' = 0
    /\ restarts' = 0
    /\ pc' = "improve"
    /\ UNCHANGED <<avars, wvars, perturbed_owner, na, cfgvars,
                   initial_population, pop_i, archive, x,
                   ls_iter, archive_changed, result, pertvars, caller,
                   iterate, candidate, round, local_solutions, op_calls>>

\* lines 217-219 and 226: local_search returns the solutions collected
LocalSearchReturn ==
    /\ pc = "ls_loop"
    /\ (round >= ns \/ evaluation_count >= max_evaluations)
    /\ pc' = IF caller = "seed" THEN "seed_update" ELSE "main_update"
    /\ UNCHANGED <<avars, wvars, ownvars, na, cfgvars, initial_population, pop_i, archive, x,
                   ls_iter, archive_changed, result, evaluation_count,
                   pertvars, lsvars, histvars>>

\* lines 203-210: one operator of the chain is called; an improvement with
\* iterate set restarts the chain
ImproveStep ==
    /\ pc = "improve"
    /\ method_idx < local_search_algorithms
    /\ op_calls' = op_calls + 1
    /\ \E improved \in BOOLEAN :
           IF improved /\ iterate
           THEN /\ restarts < MaxRestarts
                /\ method_idx' = 0
                /\ restarts' = restarts + 1
           ELSE /\ method_idx' = method_idx + 1
                /\ restarts' = restarts
    /\ UNCHANGED <<avars, wvars, ownvars, na, cfgvars, runvars, pertvars, caller, iterate,
                   candidate, round, local_solutions, ls_rounds>>

\* lines 203, 212 and 221-224: the chain is through, the candidate, which
\* the operators have changed in place, is evaluated and collected if
\* feasible; whoever else holds the object sees the change
ImproveReturn ==
    /\ pc = "improve"
    /\ method_idx >= local_search_algorithms
    /\ \E evaluated \in OperatorResults :
           /\ candidate' = evaluated
           /\ local_solutions' =
                  IF evaluated.f THEN Append(local_solutions, evaluated)
                  ELSE local_solutions
           /\ initial_population' =
                  IF candidate_owner = "initial"
                  THEN [initial_population EXCEPT ![pop_i] = evaluated]
                  ELSE initial_population
           /\ x' = IF candidate_owner = "x" THEN evaluated ELSE x
           /\ archive' = IF candidate_owner = "x"
                         THEN WrittenThrough(archive, x, evaluated)
                         ELSE archive
    /\ round' = round + 1
    /\ pc' = "ls_loop"
    /\ UNCHANGED <<avars, wvars, ownvars, na, cfgvars, pop_i,
                   ls_iter, archive_changed, result, evaluation_count,
                   pertvars, caller, iterate, method_idx, restarts, histvars>>

\* lines 270-277: the archive is updated; seeding stops when the budget is
\* used up
SeedUpdate ==
    /\ pc = "seed_update"
    /\ archive' = update_archive(archive, local_solutions, na)[1]
    /\ IF evaluation_count >= max_evaluations
       THEN pc' = "seed_end" /\ pop_i' = pop_i
       ELSE pc' = "seed" /\ pop_i' = pop_i + 1
    /\ UNCHANGED <<avars, wvars, ownvars, na, cfgvars, initial_population, x, ls_iter,
                   archive_changed, result, evaluation_count, pertvars,
                   lsvars, histvars>>

\* variant: an empty archive after seeding does not end the run
ReturnEmpty_enters_main_loop ==
    /\ pc = "seed_end"
    /\ Len(archive) = 0
    /\ pc' = "main_head"
    /\ UNCHANGED <<avars, wvars, ownvars, na, cfgvars, initial_population, pop_i, archive, x,
                   ls_iter, archive_changed, result, evaluation_count,
                   pertvars, lsvars, histvars>>

\* lines 285-288: an empty archive after seeding ends the run
ReturnEmpty ==
    /\ pc = "seed_end"
    /\ Len(archive) = 0
    /\ result' = <<>>
    /\ pc' = "done"
    /\ UNCHANGED <<avars, wvars, ownvars, na, cfgvars, initial_population, pop_i, archive, x,
                   ls_iter, archive_changed, evaluation_count, pertvars,
                   lsvars, histvars>>

\* lines 285-291: the main loop is entered
EnterMainLoop ==
    /\ pc = "seed_end"
    /\ Len(archive) # 0
    /\ pc' = "main_head"
    /\ UNCHANGED <<avars, wvars, ownvars, na, cfgvars, initial_population, pop_i, archive, x,
                   ls_iter, archive_changed, result, evaluation_count,
                   pertvars, lsvars, histvars>>

\* lines 302, 307: the solutions random.choice draws from
feasible_solutions == {s \in Range(archive) : s.f}

\* lines 292-311: a pass of the main loop starts with the choice of x, or
\* the loop is left because the archive holds nothing to choose
SelectSolution ==
    /\ pc = "main_head"
    /\ evaluation_count < max_evaluations
    /\ IF Len(archive) = 0 \/ feasible_solutions = {}
       THEN /\ pc' = "finish"
            /\ UNCHANGED <<x, ls_iter, archive_changed>>
       ELSE /\ x' \in feasible_solutions
            /\ ls_iter' = 0
            /\ archive_changed' = FALSE
            /\ pc' = "inner_head"
    /\ UNCHANGED <<avars, wvars, ownvars, na, cfgvars, initial_population, pop_i, archive,
                   result, evaluation_count, pertvars, lsvars, histvars>>

\* line 292: the budget is used up, the main loop is left
MainLoopExit ==
    /\ pc = "main_head"
    /\ evaluation_count >= max_evaluations
    /\ pc' = "finish"
    /\ UNCHANGED <<avars, wvars, ownvars, na, cfgvars, initial_population, pop_i, archive, x,
                   ls_iter, archive_changed, result, evaluation_count,
                   pertvars, lsvars, histvars>>

\* variant: the inner loop without the budget test of line 315
StartInnerPass_no_budget_test ==
    /\ pc = "inner_head"
    /\ ~archive_changed
    /\ ls_iter < ls_max_iter
    /\ ls_iter' = ls_iter + 1
    /\ perturbed_sol' = x
    /\ perturbed_owner' = deepcopy("x")
    /\ pert_idx' = 0
    /\ pc' = "perturb"
    /\ UNCHANGED <<avars, wvars, candidate_owner, na, cfgvars,
                   initial_population, pop_i, archive, x,
                   archive_changed, result, evaluation_count, lsvars,
                   histvars>>

\* variant: the inner loop without the ls_max_iter test of line 314
StartInnerPass_no_iter_test ==
    /\ pc = "inner_head"
    /\ ~archive_changed
    /\ evaluation_count < max_evaluations
    /\ ls_iter' = ls_iter + 1
    /\ perturbed_sol' = x
    /\ perturbed_owner' = deepcopy("x")
    /\ pert_idx' = 0
    /\ pc' = "perturb"
    /\ UNCHANGED <<avars, wvars, candidate_owner, na, cfgvars,
                   initial_population, pop_i, archive, x,
                   archive_changed, result, evaluation_count, lsvars,
                   histvars>>

\* lines 313-321 and 229: a pass of the inner loop starts, perturbation(x) is
\* entered
StartInnerPass ==
    /\ pc = "inner_head"
    /\ ~archive_changed
    /\ ls_iter < ls_max_iter
    /\ evaluation_count < max_evaluations
    /\ ls_iter' = ls_iter + 1
    /\ perturbed_sol' = x
    /\ perturbed_owner' = deepcopy("x")
    /\ pert_idx' = 0
    /\ pc' = "perturb"
    /\ UNCHANGED <<avars, wvars, candidate_owner, na, cfgvars,
                   initial_population, pop_i, archive, x,
                   archive_changed, result, evaluation_count, lsvars,
                   histvars>>

\* lines 313-315: the inner loop is left
InnerLoopExit ==
    /\ pc = "inner_head"
    /\ ~(/\ ~archive_changed
         /\ ls_iter < ls_max_iter
         /\ evaluation_count < max_evaluations)
    /\ pc' = "main_tail"
    /\ UNCHANGED <<avars, wvars, ownvars, na, cfgvars, initial_population, pop_i, archive, x,
                   ls_iter, archive_changed, result, evaluation_count,
                   pertvars, lsvars, histvars>>

\* lines 232-237: one perturbation operator is called, its result evaluated
\* and counted, and a copy of it kept if feasible.  The operator either
\* changes the solution it is given and returns that object (in_place:
\* `return solution`, eliminate_route.py line 54 and most operators) or
\* returns a changed copy (depot_reassignment.py lines 57-71)
PerturbStep ==
    /\ pc = "perturb"
    /\ pert_idx < pertubation_algorithms
    /\ op_calls' = op_calls + 1
    /\ evaluation_count' = evaluation_count + 1
    /\ \E new_solution \in OperatorResults, in_place \in BOOLEAN :
           /\ perturbed_sol' =
                  IF new_solution.f \/ in_place
                  THEN new_solution ELSE perturbed_sol
           /\ perturbed_owner' =
                  IF new_solution.f
                  THEN deepcopy(IF in_place THEN perturbed_owner ELSE "own")
                  ELSE perturbed_owner
           /\ x' = IF in_place /\ perturbed_owner = "x"
                   THEN new_solution ELSE x
           /\ archive' = IF in_place /\ perturbed_owner = "x"
                         THEN WrittenThrough(archive, x, new_solution)
                         ELSE archive
    /\ pert_idx' = pert_idx + 1
    /\ UNCHANGED <<avars, wvars, candidate_owner, na, cfgvars, pc,
                   initial_population, pop_i,
                   ls_iter, archive_changed, result, lsvars, ls_rounds>>

\* lines 240, 324 and 215-216: perturbation returns x_prime and
\* local_search(x_prime, True) is entered
PerturbReturn ==
    /\ pc = "perturb"
    /\ pert_idx >= pertubation_algorithms
    /\ caller' = "main"
    /\ iterate' = TRUE
    /\ candidate' = perturbed_sol
    /\ candidate_owner' = deepcopy(perturbed_owner)
    /\ local_solutions' = <<>>
    /\ round' = 0
    /\ pc' = "ls_loop"
    /\ UNCHANGED <<avars, wvars, perturbed_owner, na, cfgvars,
                   initial_population, pop_i, archive, x,
                   ls_iter, archive_changed, result, evaluation_count,
                   pertvars, method_idx, restarts, histvars>>

\* lines 327-335: the archive is updated with the solutions collected
MainUpdate ==
    /\ pc = "main_update"
    /\ LET r == update_archive(archive, local_solutions, na)
       IN  /\ archive' = r[1]
           /\ archive_changed' = (r[2] \/ archive_changed)
    /\ pc' = "inner_head"
    /\ UNCHANGED <<avars, wvars, ownvars, na, cfgvars, initial_population, pop_i, x, ls_iter,
                   result, evaluation_count, pertvars, lsvars, histvars>>

\* lines 337-346 and 292: the end of a pass of the main loop
MainTail ==
    /\ pc = "main_tail"
    /\ pc' = IF evaluation_count >= max_evaluations
             THEN "finish" ELSE "main_head"
    /\ UNCHANGED <<avars, wvars, ownvars, na, cfgvars, initial_population, pop_i, archive, x,
                   ls_iter, archive_changed, result, evaluation_count,
                   pertvars, lsvars, histvars>>

\* lines 348-361: run returns the archive
ReturnArchive ==
    /\ pc = "finish"
    /\ result' = archive
    /\ pc' = "done"
    /\ UNCHANGED <<avars, wvars, ownvars, na, cfgvars, initial_population, pop_i, archive, x,
                   ls_iter, archive_changed, evaluation_count, pertvars,
                   lsvars, histvars>>

Next ==
    \/ SeedSkipInfeasible \/ SeedLocalSearch \/ SeedExhausted
    \/ LocalSearchRound \/ LocalSearchReturn
    \/ ImproveStep \/ ImproveReturn
    \/ SeedUpdate \/ ReturnEmpty \/ EnterMainLoop
    \/ SelectSolution \/ MainLoopExit
    \/ StartInnerPass \/ InnerLoopExit
    \/ PerturbStep \/ PerturbReturn
    \/ MainUpdate \/ MainTail \/ ReturnArchive

Spec == Init /\ [][Next]_vars

\* run is one sequential call: a step that can be taken is taken
FairSpec == Spec /\ WF_vars(Next)

\* both uses of the archive: direct calls of update_archive and GVNS.run
SpecRunAndCalls == (Init \/ InitArchive) /\ [][Next \/ NextArchive]_vars

(***************************************************************************)
(* GVNS.run with the perturbation operators told apart: an operator whose  *)
(* perturbation returns something that is no Solution makes line 234 raise.*)
(***************************************************************************)
\* operators of the package placed in the perturbation chain
PerturbationMethods == {"Reinsertion", "EliminateRoute"}

\* reinsertion.py lines 26-27: Reinsertion.perturbation returns False when
\* the solution has fewer than two routes; the other operators return the
\* solution or a copy of it
ReturnsFalse(method, sol) == method = "Reinsertion" /\ sol.v < 2

\* lines 232-237 with the operator told apart: new_solution.evaluate() on
\* False raises AttributeError, which nothing catches up to the caller of run
PerturbStepByMethod ==
    /\ pc = "perturb"
    /\ pert_idx < pertubation_algorithms
    /\ \E method \in PerturbationMethods :
           IF ReturnsFalse(method, perturbed_sol)
           THEN /\ pc' = "raised"
                /\ op_calls' = op_calls + 1
                /\ UNCHANGED <<avars, wvars, ownvars, na, cfgvars,
                               initial_population, pop_i, archive, x,
                               ls_iter, archive_changed, result,
                               evaluation_count, pertvars, lsvars, ls_rounds>>
           ELSE PerturbStep

NextByMethod ==
    \/ SeedSkipInfeasible \/ SeedLocalSearch \/ SeedExhausted
    \/ LocalSearchRound \/ LocalSearchReturn
    \/ ImproveStep \/ ImproveReturn
    \/ SeedUpdate \/ ReturnEmpty \/ EnterMainLoop
    \/ SelectSolution \/ MainLoopExit
    \/ StartInnerPass \/ InnerLoopExit
    \/ PerturbStepByMethod \/ PerturbReturn
    \/ MainUpdate \/ MainTail \/ ReturnArchive

SpecByMethod == Init /\ [][NextByMethod]_vars

(***************************************************************************)
(* Calls of the evaluators.                                                *)
(***************************************************************************)
InitEvaluate ==
    /\ ArchiveIdle /\ na = 1 /\ EngineIdle
    /\ \/ instance \in RouteInstances /\ solution \in RouteSolutions
       \/ instance \in FleetInstances /\ solution \in FleetSolutions
    /\ before = solution
    /\ wpc = "fresh"
    /\ ret = 0

\* route.evaluate(instance) on one route of the solution
CallRouteEvaluate ==
    /\ wpc \in {"fresh", "route_evaluated", "solution_evaluated"}
    /\ \E r \in 1..Len(solution.routes) :
           /\ solution' = [solution EXCEPT
                              !.routes[r] = RouteEvaluate(@, instance)]
           /\ ret' = r
    /\ before' = solution
    /\ wpc' = "route_evaluated"
    /\ UNCHANGED <<avars, na, evars, instance>>

\* solution.evaluate()
CallSolutionEvaluate ==
    /\ wpc \in {"fresh", "route_evaluated", "solution_evaluated"}
    /\ solution' = SolutionEvaluate(solution, instance)
    /\ before' = solution
    /\ ret' = 0
    /\ wpc' = "solution_evaluated"
    /\ UNCHANGED <<avars, na, evars, instance>>

NextEvaluate == CallRouteEvaluate \/ CallSolutionEvaluate

SpecEvaluate == InitEvaluate /\ [][NextEvaluate]_vars

(***************************************************************************)
(* Calls of the operators on an evaluated solution, the solution returned  *)
(* evaluated again as GVNS.perturbation and GVNS.local_search do.          *)
(***************************************************************************)
\* the evaluated solutions of an instance
Evaluated(solutions, inst) == {SolutionEvaluate(s, inst) : s \in solutions}

\* GVNS.py lines 212 and 234: evaluate() on what the operator left
EvaluateReturned ==
    /\ wpc = "returned"
    /\ solution' = SolutionEvaluate(solution, instance)
    /\ wpc' = "evaluated_again"
    /\ UNCHANGED <<avars, na, evars, instance, before, ret>>

InitEliminateRoute ==
    /\ ArchiveIdle /\ na = 1 /\ EngineIdle
    /\ instance \in EliminateInstances
    /\ solution \in Evaluated(FleetSolutions, instance)
    /\ before = solution
    /\ wpc = "evaluated"
    /\ ret = 0

\* EliminateRoute(instance).perturbation(solution)
CallEliminateRoute ==
    /\ wpc = "evaluated"
    /\ solution' \in EliminateRoutePerturbation(solution, instance)
    /\ before' = solution
    /\ wpc' = "returned"
    /\ UNCHANGED <<avars, na, evars, instance, ret>>

NextEliminateRoute == CallEliminateRoute \/ EvaluateReturned

SpecEliminateRoute == InitEliminateRoute /\ [][NextEliminateRoute]_vars

InitRouteSplit ==
    /\ ArchiveIdle /\ na = 1 /\ EngineIdle
    /\ instance \in SplitInstances
    /\ solution \in Evaluated(SplitSolutions, instance)
    /\ before = solution
    /\ wpc = "evaluated"
    /\ ret = 0

\* RouteSplit(instance).local_search(solution); ret is 1 for True
CallRouteSplit ==
    /\ wpc = "evaluated"
    /\ LET r == RouteSplitLocalSearch(solution, instance)
       IN  /\ solution' = r[1]
           /\ ret' = IF r[2] THEN 1 ELSE 0
    /\ before' = solution
    /\ wpc' = "returned"
    /\ UNCHANGED <<avars, na, evars, instance>>

NextRouteSplit == CallRouteSplit \/ EvaluateReturned

SpecRouteSplit == InitRouteSplit /\ [][NextRouteSplit]_vars

InitRechargeRealocation ==
    /\ ArchiveIdle /\ na = 1 /\ EngineIdle
    /\ \/ /\ instance \in RechargeInstances
          /\ solution \in Evaluated(RechargeSolutions, instance)
       \/ /\ instance \in TwoStationInstances
          /\ solution \in Evaluated(TwoStationSolutions, instance)
    /\ before = solution
    /\ wpc = "evaluated"
    /\ ret = 0

\* RechargeRealocation(instance).local_search(solution); ret is 1 for True
CallRechargeRealocation ==
    /\ wpc = "evaluated"
    /\ LET o == RechargeRealocationLocalSearch(solution, instance)
       IN  /\ solution' = o.route
           /\ ret' = IF o.value THEN 1 ELSE 0
           /\ wpc' = IF o.raised THEN "raised" ELSE "returned"
    /\ before' = solution
    /\ UNCHANGED <<avars, na, evars, instance>>

NextRechargeRealocation == CallRechargeRealocation \/ EvaluateReturned

SpecRechargeRealocation ==
    InitRechargeRealocation /\ [][NextRechargeRealocation]_vars

(***************************************************************************)
(* Calls of dominates on any two objects with cached objectives, one way   *)
(* and then the other way round.                                           *)
(***************************************************************************)
InitDominates ==
    /\ upc = "call"
    /\ na = 1
    /\ in_archive \in [1..2 -> Solutions]
    /\ new_solutions = <<>> /\ out_archive = <<>> /\ changed = FALSE
    /\ EngineIdle /\ WorldIdle

\* a.dominates(b); changed holds the value returned
CallDominates ==
    /\ upc = "call"
    /\ changed' = dominates(in_archive[1], in_archive[2])
    /\ upc' = "forth"
    /\ UNCHANGED <<in_archive, new_solutions, out_archive, na, evars, wvars>>

\* b.dominates(a); ret is 1 for True
CallDominatesBack ==
    /\ upc = "forth"
    /\ ret' = IF dominates(in_archive[2], in_archive[1]) THEN 1 ELSE 0
    /\ upc' = "back"
    /\ UNCHANGED <<in_archive, new_solutions, out_archive, changed>>
    /\ UNCHANGED <<na, evars, instance, solution, before, wpc>>

NextDominates == CallDominates \/ CallDominatesBack

SpecDominates == InitDominates /\ [][NextDominates]_vars

InitOrOpt ==
    /\ ArchiveIdle /\ na = 1 /\ EngineIdle
    /\ instance \in OrOptInstances
    /\ solution \in Evaluated(OrOptSolutions, instance)
    /\ before = solution
    /\ wpc = "evaluated"
    /\ ret = 0

\* OrOpt(instance, max_iter = 1).perturbation(solution), line 52:
\* _relocate_segments(solution, force_move=True); ret is the place in
\* valid_moves of the move applied, 0 for none
CallOrOptRelocate ==
    /\ wpc = "evaluated"
    /\ \E o \in relocate_segments(solution, instance, TRUE) :
           /\ solution' = o[1]
           /\ ret' = PlaceOf(valid_moves(solution, instance), o[2])
    /\ before' = solution
    /\ wpc' = "moved"
    /\ UNCHANGED <<avars, na, evars, instance>>

\* line 54: solution.evaluate(), and perturbation returns
EvaluateMoved ==
    /\ wpc = "moved"
    /\ solution' = SolutionEvaluate(solution, instance)
    /\ wpc' = "returned"
    /\ UNCHANGED <<avars, na, evars, instance, before, ret>>

NextOrOpt == CallOrOptRelocate \/ EvaluateMoved \/ EvaluateReturned

SpecOrOpt == InitOrOpt /\ [][NextOrOpt]_vars

InitExchange ==
    /\ ArchiveIdle /\ na = 1 /\ EngineIdle
    /\ instance \in ExchangeInstances
    /\ solution \in ExchangeSolutions(instance)
    /\ before = solution
    /\ wpc = "evaluated"
    /\ ret = 0

\* Exchange(instance).local_search(solution); ret is 1 for True
CallExchange ==
    /\ wpc = "evaluated"
    /\ LET r == ExchangeLocalSearch(solution, instance)
       IN  /\ solution' = r[1]
           /\ ret' = IF r[2] THEN 1 ELSE 0
    /\ before' = solution
    /\ wpc' = "returned"
    /\ UNCHANGED <<avars, na, evars, instance>>

NextExchange == CallExchange \/ EvaluateReturned

SpecExchange == InitExchange /\ [][NextExchange]_vars

InitDepotReassignment ==
    /\ ArchiveIdle /\ na = 1 /\ EngineIdle
    /\ instance \in DepotInstances
    /\ solution \in DepotSolutions(instance)
    /\ before = solution
    /\ wpc = "evaluated"
    /\ ret = 0

\* DepotReassignment(instance).perturbation(solution)
CallDepotReassignment ==
    /\ wpc = "evaluated"
    /\ solution' \in DepotReassignmentPerturbation(solution, instance)
    /\ before' = solution
    /\ wpc' = "returned"
    /\ UNCHANGED <<avars, na, evars, instance, ret>>

NextDepotReassignment == CallDepotReassignment \/ EvaluateReturned

SpecDepotReassignment ==
    InitDepotReassignment /\ [][NextDepotReassignment]_vars

(***************************************************************************)
(* Properties of the evaluation budget.                                    *)
(***************************************************************************)
\* this step is a call of an operator's local_search or perturbation
OperatorCalled == op_calls' = op_calls + 1

\* the operator called is the first of a round of local search, the round
\* that line 220 has just counted
FirstOfRound == pc = "improve" /\ method_idx = 0 /\ restarts = 0

C3_RunReturns == <>(pc = "done")

(***************************************************************************)
(* Properties of update_archive.                                           *)
(***************************************************************************)
\* a call of update_archive has returned
Returned == upc = "returned"

\* Pareto dominance on (total_distance, total_cost), as the claims state it
Pareto(a, b) ==
    /\ a.d <= b.d /\ a.c <= b.c
    /\ ~(a.d = b.d /\ a.c = b.c)

Tuple(s) == <<s.d, s.c>>

\* archive list followed by the batch, in the order the code visits them
Union == in_archive \o new_solutions

\* positions of the union holding a feasible solution that no feasible
\* solution of the union dominates
Undominated ==
    {i \in 1..Len(Union) :
        /\ Union[i].f
        /\ \A j \in 1..Len(Union) : Union[j].f => ~Pareto(Union[j], Union[i])}

\* positions of the union holding the earliest feasible holder of a tuple
FirstHolder ==
    {i \in 1..Len(Union) :
        /\ Union[i].f
        /\ \A j \in 1..(i - 1) :
               ~(Union[j].f /\ Tuple(Union[j]) = Tuple(Union[i]))}

\* no member of the list Pareto-dominates another member
MutuallyNonDominated(list) ==
    \A m, n \in 1..Len(list) : ~Pareto(list[m], list[n])

\* C4: after any call of update_archive (any archive list, any batch) no
\* member of the returned archive Pareto-dominates another member on
\* (total_distance, total_cost); the same holds for the archive at every
\* point of GVNS.run and for the list run returns.
C4_ArchiveNonDominated ==
    /\ Returned => MutuallyNonDominated(out_archive)
    /\ MutuallyNonDominated(archive)
    /\ MutuallyNonDominated(result)

\* C4 witness: a call that had to remove a dominated member and returned two
\* members
C4_Witness ==
    /\ Returned
    /\ Len(out_archive) = 2
    /\ \E i, j \in 1..Len(Union) :
           Union[i].f /\ Union[j].f /\ Pareto(Union[i], Union[j])

\* C5: after any call of update_archive the returned archive has at most na
\* members, whatever the sizes of the input archive and of the batch.
C5_ArchiveBound == Returned => Len(out_archive) <= na

\* C5 witness: more mutually non-dominated tuples than na came in, and the
\* returned archive is full
C5_Witness ==
    /\ Returned
    /\ Cardinality({Tuple(Union[i]) : i \in Undominated}) > na
    /\ Len(out_archive) = na

\* C6: every solution in the returned archive is feasible: an infeasible new
\* solution is never added and an infeasible solution of the input list is
\* removed (the call returns in both cases).
C6_ArchiveFeasible ==
    Returned =>
        /\ \A i \in 1..Len(out_archive) : out_archive[i].f
        /\ \A s \in Range(in_archive) \cup Range(new_solutions) :
               ~s.f => s \notin Range(out_archive)

\* C6 witness: the input list holds an infeasible solution, the batch an
\* infeasible one or a feasible one with the tuple of the infeasible member,
\* and the call returned the feasible one alone
C6_Witness ==
    /\ Returned
    /\ \E i \in 1..Len(in_archive), j \in 1..Len(new_solutions) :
           /\ ~in_archive[i].f
           /\ new_solutions[j].f
           /\ Tuple(new_solutions[j]) = Tuple(in_archive[i])
           /\ out_archive = <<new_solutions[j]>>

\* C7 as stated: when the non-dominated set does not exceed na, the returned
\* archive holds exactly the feasible solutions of the union that no other
\* feasible solution of the union dominates.
C7_AsStated ==
    (Returned /\ Len(non_dominated(in_archive, new_solutions)) <= na) =>
        Range(out_archive) = {Union[i] : i \in Undominated}

\* C7 amended: when the non-dominated set does not exceed na, the returned
\* archive holds, for every tuple of a feasible undominated solution of the
\* union, exactly its earliest holder (archive first, then batch order), and
\* nothing else; (2,1),(1,2) are both kept and adding (0,0) leaves only (0,0).
C7_ExactNonDominated ==
    (Returned /\ Len(non_dominated(in_archive, new_solutions)) <= na) =>
        /\ Range(out_archive) =
               {Union[i] : i \in Undominated \cap FirstHolder}
        /\ Len(out_archive) = Cardinality(Range(out_archive))

\* C7 witness: the scenario of the spec: the archive holds (2,1) and (1,2),
\* both kept by the call before, and the batch (0,0) leaves only (0,0)
C7_Witness ==
    /\ Returned
    /\ Len(in_archive) = 2
    /\ {Tuple(in_archive[i]) : i \in 1..Len(in_archive)} = {<<2, 1>>, <<1, 2>>}
    /\ \A i \in 1..Len(in_archive) : in_archive[i].f
    /\ Len(new_solutions) = 1 /\ new_solutions[1].f
    /\ Tuple(new_solutions[1]) = <<0, 0>>
    /\ out_archive = new_solutions

\* C8: a new solution whose tuple equals that of a feasible solution already
\* in the archive, or of an earlier feasible solution of the batch, is not
\* added and the existing holder is kept; no two members of the returned
\* archive share a tuple.
C8_NoDuplicateTuples ==
    Returned =>
        /\ \A i, j \in 1..Len(out_archive) :
               i # j => Tuple(out_archive[i]) # Tuple(out_archive[j])
        /\ \A k \in 1..Len(out_archive) :
               \E i \in FirstHolder : out_archive[k] = Union[i]

\* C8 witness: the batch brings another solution with the tuple of an archive
\* member, and the returned archive holds the archive's one
C8_Witness ==
    /\ Returned
    /\ \E i \in 1..Len(in_archive), j \in 1..Len(new_solutions) :
           /\ in_archive[i].f /\ new_solutions[j].f
           /\ Tuple(in_archive[i]) = Tuple(new_solutions[j])
           /\ in_archive[i] # new_solutions[j]
           /\ in_archive[i] \in Range(out_archive)

Key3(sol) == <<sol.d, sol.v, sol.c>>

Key3Less(k1, k2) ==
    \/ k1[1] < k2[1]
    \/ k1[1] = k2[1] /\ k1[2] < k2[2]
    \/ k1[1] = k2[1] /\ k1[2] = k2[2] /\ k1[3] < k2[3]

\* C9: when the non-dominated set has more than na members, the returned
\* archive is the first na members of that set sorted ascending on
\* (total_distance, num_vehicles_used, total_cost).
C9_TruncationOrder ==
    LET nd == non_dominated(in_archive, new_solutions)
    IN  (Returned /\ Len(nd) > na) =>
            /\ Len(out_archive) = na
            /\ Range(out_archive) \subseteq Range(nd)
            /\ \A i \in 1..(Len(out_archive) - 1) :
                   Key3Less(Key3(out_archive[i]), Key3(out_archive[i + 1]))
            /\ \A s \in Range(nd) \ Range(out_archive) :
                   \A k \in 1..Len(out_archive) :
                       Key3Less(Key3(out_archive[k]), Key3(s))

\* C9 witness: three mutually non-dominated solutions for an archive of two,
\* where the vehicle counts run against the costs
C9_Witness ==
    LET nd == non_dominated(in_archive, new_solutions)
    IN  /\ Returned
        /\ Len(nd) = 3 /\ na = 2
        /\ \E i, j \in 1..3 : nd[i].v < nd[j].v /\ nd[i].c > nd[j].c

\* feasible solutions of the archive passed in
FeasibleIn == {s \in Range(in_archive) : s.f}

DistinctTuplesIn ==
    \A i, j \in 1..Len(in_archive) :
        (i # j /\ in_archive[i].f /\ in_archive[j].f)
            => Tuple(in_archive[i]) # Tuple(in_archive[j])

RECURSIVE Replay(_, _, _)
Replay(route, everywhere, k) ==
    IF k = 1
    THEN [arrival_battery |-> instance.battery_capacity,
          battery |-> instance.battery_capacity, load |-> 0,
          arrival_time |-> 0, time |-> 0]
    ELSE
    LET prev == Replay(route, everywhere, k - 1)
        n == route.nodes[k]
        leg == <<route.nodes[k - 1], n>>
        arrival_battery ==
            prev.battery
              - instance.distance_matrix[leg] * instance.consumption_rate
        arrival_time == prev.time + instance.time_matrix[leg]
        charges == /\ n \notin CustomerIds
                   /\ n \in DOMAIN route.charging_decisions
                   /\ (everywhere \/ k < Len(route.nodes))
        energy == route.charging_decisions[n][2]
        power == Technology(route.charging_decisions[n][1]).power
    IN  [arrival_battery |-> arrival_battery,
         battery |->
             IF ~charges THEN arrival_battery
             ELSE IF arrival_battery + energy < instance.battery_capacity
                  THEN arrival_battery + energy
                  ELSE instance.battery_capacity,
         load |-> IF n \in CustomerIds THEN prev.load + instance.demand[n]
                  ELSE prev.load,
         arrival_time |-> arrival_time,
         time |-> IF n \in CustomerIds
                  THEN arrival_time + instance.service_time[n]
                  ELSE IF charges
                  THEN arrival_time + instance.charging_fixed_time
                         + energy \div power
                  ELSE arrival_time]

ReplaySound(route, everywhere) ==
    /\ Len(route.nodes) >= 1
    /\ route.nodes[1] = depot_id(instance)
    /\ \A k \in 1..Len(route.nodes) :
           LET at == Replay(route, everywhere, k)
           IN  /\ at.arrival_battery >= 0
               /\ at.load <= instance.capacity
               /\ at.arrival_time <= instance.max_route_duration
               /\ at.time <= instance.max_route_duration

\* C11: a route that Route.evaluate or Solution._evaluate_route has marked
\* feasible starts at the first depot and, replayed node by node with a full
\* battery, has battery >= 0 on arrival at every node, load <= capacity
\* after every customer and elapsed time <= max_route_duration at every
\* step (distances, times, demands and charged energies being >= 0).
C11_FeasibleRouteReplays ==
    /\ wpc = "route_evaluated" =>
           (solution.routes[ret].is_feasible
                => ReplaySound(solution.routes[ret], TRUE))
    /\ wpc = "solution_evaluated" =>
           \A r \in 1..Len(solution.routes) :
               solution.routes[r].is_feasible
                   => ReplaySound(solution.routes[r], FALSE)

\* C11 witness: Route.evaluate has marked feasible a route longer than the
\* range of a full battery, which a charge at the station carries through
C11_Witness ==
    /\ wpc = "route_evaluated"
    /\ LET route == solution.routes[ret]
       IN  /\ route.is_feasible
           /\ route.total_distance * instance.consumption_rate
                  > instance.battery_capacity
           /\ 5 \in DOMAIN route.charging_decisions
           /\ \E k \in 2..(Len(route.nodes) - 1) : route.nodes[k] = 5

\* number of visits of node n over all routes of the solution
Visits(sol, n) ==
    Cardinality({p \in UNION {{<<r, k>> : k \in 1..Len(sol.routes[r].nodes)} :
                                 r \in 1..Len(sol.routes)} :
                    sol.routes[p[1]].nodes[p[2]] = n})

\* C12: in a solution that Solution.evaluate has marked feasible every
\* customer of the instance is visited exactly once over all routes: none is
\* missing and none is visited twice, in one route or in two.
C12_EachCustomerOnce ==
    (wpc = "solution_evaluated" /\ solution.is_feasible) =>
        \A n \in all_customers(instance) : Visits(solution, n) = 1

(***************************************************************************)
(* Properties of GVNS.run: seeding, the inner loop, the frame of the       *)
(* archive, the perturbation chain.                                        *)
(***************************************************************************)
\* the step of the seeding loop at an initial solution flagged infeasible
AtInfeasibleSeed ==
    /\ pc = "seed"
    /\ pop_i <= Len(initial_population)
    /\ ~initial_population[pop_i].f

\* C13: in seeding, an initial solution whose is_feasible flag is false is
\* skipped: the loop moves on to the next one with no operator call, no
\* change of evaluation_count and no change of the archive.  If the archive
\* is empty after seeding, run returns the empty list and never reaches the
\* main loop: the return is the last step of the run.
C13_SkipAndEmptyReturn ==
    /\ [][AtInfeasibleSeed =>
              /\ op_calls' = op_calls /\ ls_rounds' = ls_rounds
              /\ evaluation_count' = evaluation_count
              /\ archive' = archive
              /\ pc' = "seed" /\ pop_i' = pop_i + 1]_vars
    /\ [][(pc = "seed_end" /\ Len(archive) = 0) =>
              (pc' = "done" /\ result' = <<>> /\ UNCHANGED histvars)]_vars
    /\ [][pc # "done"]_vars

\* C13 witness: a run over a population of infeasible solutions only has
\* returned the empty list, with a budget left, no operator called and no
\* evaluation counted
C13_Witness ==
    /\ pc = "done"
    /\ Len(initial_population) >= 2
    /\ \A k \in 1..Len(initial_population) : ~initial_population[k].f
    /\ pop_i = Len(initial_population) + 1
    /\ max_evaluations >= 1 /\ ns >= 1
    /\ result = <<>> /\ op_calls = 0 /\ evaluation_count = 0

\* a perturb -> local-search -> archive-update cycle starts
CycleStarts == pc = "inner_head" /\ pc' = "perturb"

C15_ArchiveFrame ==
    /\ archive = <<>>
    /\ [](perturbed_owner = "own" /\ candidate_owner = "own")
    /\ [][archive' # archive =>
              /\ pc \in {"seed_update", "main_update"}
              /\ archive' = update_archive(archive, local_solutions, na)[1]]_vars
    /\ [][initial_population' = initial_population]_vars

\* C15 witness: an in-place perturbation operator has changed the copy of
\* x, a member of the archive, while the archive still holds x as it was
C15_Witness ==
    /\ pc = "perturb" /\ pert_idx >= 1
    /\ perturbed_sol # x
    /\ perturbed_owner = "own"
    /\ x \in Range(archive)
    /\ \E k \in 1..Len(initial_population) : initial_population[k].f

\* C16: in the perturbation chain an operator's result is accepted only if
\* it is feasible, an infeasible result leaves the candidate as it was, so
\* the candidate, a copy of the feasible x at the start of the chain, is
\* feasible at every point of the chain and when perturbation returns it.
C16_PerturbedFeasible == pc = "perturb" => perturbed_sol.f

\* C17: run and the operators it calls never let an exception out: every
\* failure, an operator that finds too few routes among them, ends in a
\* normal return.
C17_NoException == pc # "raised"

(***************************************************************************)
(* Properties of the operators.                                            *)
(***************************************************************************)
\* every customer of the instance is visited exactly once
EachCustomerOnce(sol, inst) ==
    \A n \in all_customers(inst) : Visits(sol, n) = 1

\* C18: EliminateRoute.perturbation on a feasible solution, each customer
\* on exactly one route, leaves either a solution whose routes are all
\* feasible and on which every customer still appears exactly once, or the
\* solution as it was before the call: no customer is left out and none is
\* put on a route that is infeasible.
C18_FeasibleOrRestored ==
    (/\ wpc = "returned"
     /\ before.is_feasible /\ EachCustomerOnce(before, instance)) =>
        \/ solution = before
        \/ /\ \A r \in 1..Len(solution.routes) :
                  /\ solution.routes[r].is_feasible
                  /\ RouteEvaluate(solution.routes[r], instance).is_feasible
           /\ EachCustomerOnce(solution, instance)

\* C19: when RouteSplit.local_search returns True on a feasible solution,
\* the solution left is feasible under Solution.evaluate: every route is
\* feasible, the customers are those of before, each once, and the number
\* of routes is at most instance.num_vehicles.
C19_SplitKeepsFeasible ==
    (/\ wpc = "evaluated_again" /\ ret = 1
     /\ before.is_feasible /\ EachCustomerOnce(before, instance)) =>
        /\ solution.is_feasible
        /\ \A r \in 1..Len(solution.routes) : solution.routes[r].is_feasible
        /\ EachCustomerOnce(solution, instance)
        /\ Len(solution.routes) <= instance.num_vehicles

\* the route with the station put at position p (from 1, behind the p-th
\* node) and the decision to charge the energy there with the technology
WithStation(route, p, station, technology, energy) ==
    NewRoute(InsertAt(route.nodes, station, p),
             [n \in DOMAIN route.charging_decisions \cup {station} |->
                 IF n = station THEN <<technology, energy>>
                 ELSE route.charging_decisions[n]])

\* the insertions of a single station (position, station, technology) that
\* give a feasible route for some amount of energy
FeasibleInsertions(route, inst) ==
    {ins \in (1..(Len(route.nodes) - 1))
                 \X {inst.stations[k] : k \in 1..Len(inst.stations)}
                 \X {1, 2} :
        /\ ins[3] \in inst.technologies[ins[2]]
        /\ \E energy \in 1..inst.battery_capacity :
               RouteEvaluate(WithStation(route, ins[1], ins[2], ins[3],
                                         energy), inst).is_feasible}

\* the route has no station and its sequence is longer than the range
NeedsRecharge(route, inst) ==
    /\ \A k \in 1..Len(route.nodes) : route.nodes[k] \notin StationIds
    /\ Len(route.nodes) >= 3
    /\ route.nodes[1] \in DepotIds /\ route.nodes[Len(route.nodes)] \in DepotIds
    /\ calculate_total_distance(route.nodes, inst) > inst.max_range

\* C20: for a route without stations whose sequence from depot to depot is
\* longer than the range and for which exactly one insertion of a single
\* station gives a feasible route, local_search returns True and leaves
\* the route feasible with that station at that position.
C20_UniqueInsertionFound ==
    wpc \in {"returned", "raised"} =>
        \A r \in 1..Len(before.routes) :
            (/\ NeedsRecharge(before.routes[r], instance)
             /\ Cardinality(FeasibleInsertions(before.routes[r], instance)) = 1)
            => /\ wpc = "returned" /\ ret = 1
               /\ solution.routes[r].is_feasible
               /\ \E ins \in FeasibleInsertions(before.routes[r], instance) :
                      solution.routes[r].nodes
                          = InsertAt(before.routes[r].nodes, ins[2], ins[1])

(***************************************************************************)
(* Properties of the evaluators called again.                              *)
(***************************************************************************)
\* C22: Route.evaluate called twice in a row on the same unmodified route,
\* or Solution.evaluate called twice in a row on the same unmodified
\* solution, leaves at the second call the total_distance, total_cost,
\* total_time, num_vehicles_used and is_feasible the first call left (and
\* everything else of the solution), whether the route is feasible,
\* infeasible, empty or cut short by a violated constraint.
C22_EvaluateIdempotent ==
    [][/\ (wpc = "route_evaluated" /\ wpc' = "route_evaluated" /\ ret' = ret)
              => solution' = solution
       /\ (wpc = "solution_evaluated" /\ wpc' = "solution_evaluated")
              => solution' = solution]_vars

\* C22 witness: a route cut short by a violated constraint after a leg was
\* walked, in the state a repeated Route.evaluate has left unchanged
C22_Witness ==
    /\ wpc = "route_evaluated"
    /\ before = solution
    /\ ~solution.routes[ret].is_feasible
    /\ solution.routes[ret].total_distance > 0
    /\ solution.routes[ret].total_time = 0

(***************************************************************************)
(* Properties of dominance.                                                *)
(***************************************************************************)
\* C23: dominance on (total_distance, total_cost) is irreflexive and
\* antisymmetric: an object does not dominate itself, two objects with equal
\* objective vectors do not dominate each other, and when a dominates b,
\* b does not dominate a.
C23_DominanceAntisymmetric ==
    upc = "back" =>
        /\ ~(changed /\ ret = 1)
        /\ get_solution_hash(in_archive[1]) = get_solution_hash(in_archive[2])
               => (~changed /\ ret = 0)

\* C23 witness: a dominates b with one objective tied, and b has been asked
\* whether it dominates a
C23_Witness ==
    /\ upc = "back"
    /\ changed /\ ret = 0
    /\ in_archive[1].d < in_archive[2].d
    /\ in_archive[1].c = in_archive[2].c

\* C25: for every route, the per-route evaluation of Solution.evaluate and
\* Route.evaluate leave the same total_distance, total_cost, total_time and
\* is_feasible, also on a route with a charging decision keyed by the depot
\* id: Route.evaluate on a route that Solution.evaluate has just evaluated
\* changes nothing.
C25_EvaluatorsAgree ==
    wpc = "solution_evaluated" =>
        \A r \in 1..Len(solution.routes) :
            RouteEvaluate(solution.routes[r], instance) = solution.routes[r]

(***************************************************************************)
(* Properties of GVNS.run: the archive in the main loop, the evaluation    *)
(* counter.                                                                *)
(***************************************************************************)
\* C27: once the archive is non-empty after seeding it stays non-empty, and
\* holds a feasible solution, after every later update_archive call of the
\* run (na >= 1); the main loop is never left through its "archive empty"
\* or "no feasible solution in archive" exits, only on the evaluation
\* budget, and run then returns a non-empty list.
C27_ArchiveStaysNonEmpty ==
    /\ [](pc \in {"main_head", "inner_head", "perturb", "main_update",
                  "main_tail", "finish"}
              => (Len(archive) >= 1 /\ feasible_solutions # {}))
    /\ [][(pc = "main_head" /\ pc' = "finish")
              => evaluation_count >= max_evaluations]_vars
    /\ [][(pc = "finish" /\ pc' = "done") => Len(result') >= 1]_vars

\* C27 witness: run has returned after an update_archive call of the main
\* loop changed an archive of capacity 1
C27_Witness ==
    /\ pc = "done"
    /\ archive_changed
    /\ na = 1
    /\ Len(result) = 1

\* C28: with max_evaluations >= 1 and P perturbation operators configured,
\* evaluation_count never exceeds max(max_evaluations,
\* max_evaluations + P - 1) at any point of GVNS.run.
C28_CounterBound ==
    max_evaluations >= 1 =>
        evaluation_count
            <= Max2(max_evaluations,
                    max_evaluations + pertubation_algorithms - 1)

\* C28 witness: a chain of two perturbation operators, started below the
\* cap, has carried the counter past it, up to the bound
C28_Witness ==
    /\ pc = "perturb"
    /\ pertubation_algorithms = 2
    /\ pert_idx = pertubation_algorithms
    /\ max_evaluations >= 1
    /\ evaluation_count = max_evaluations + pertubation_algorithms - 1

(***************************************************************************)
(* Properties of RechargeRealocation: the station taken out and put back.  *)
(***************************************************************************)
\* the route with its first station and that station's charging decision
\* taken out, evaluated (lines 121-123)
WithoutFirstStation(route, inst) ==
    RouteEvaluate(
        [route EXCEPT
            !.nodes = Popped(@, FirstStation(route.nodes, 0) + 1),
            !.charging_decisions =
                Without(@, At(route.nodes, FirstStation(route.nodes, 0)))],
        inst)

\* the sequence of the route fits within the range, the route is feasible,
\* and without its first station, which has a charging decision, it is not
RemovalMakesInfeasible(route, inst) ==
    /\ route.is_feasible
    /\ Len(extract_customer_sequence(route.nodes, 1)) >= 3
    /\ calculate_total_distance(extract_customer_sequence(route.nodes, 1),
                                inst) <= inst.max_range
    /\ FirstStation(route.nodes, 0) # 0 - 1
    /\ At(route.nodes, FirstStation(route.nodes, 0))
           \in DOMAIN route.charging_decisions
    /\ ~WithoutFirstStation(route, inst).is_feasible

\* C24: when the customer sequence of a route fits within the max range and
\* removing a station makes the route infeasible, local_search returns
\* false and leaves the route as it was before the attempt: the same node
\* sequence and the same charging decisions, technology and energy.
C24_RestoredExactly ==
    wpc \in {"returned", "raised"} =>
        \A r \in 1..Len(before.routes) :
            RemovalMakesInfeasible(before.routes[r], instance)
            => /\ wpc = "returned" /\ ret = 0
               /\ solution.routes[r].nodes = before.routes[r].nodes
               /\ solution.routes[r].charging_decisions
                      = before.routes[r].charging_decisions

(***************************************************************************)
(* Properties of the operators' acceptance.                                *)
(***************************************************************************)
\* C21: when local_search of an operator with selective acceptance returns
\* True on a feasible solution, the (total_distance, total_cost) of the
\* solution it leaves, evaluated, Pareto-dominates that of the solution
\* before the call: neither objective is worse and one is strictly better.
\* Stated here for RouteSplit.
C21_AcceptedDominates ==
    (wpc = "evaluated_again" /\ ret = 1 /\ before.is_feasible) =>
        /\ solution.total_distance <= before.total_distance
        /\ solution.total_cost <= before.total_cost
        /\ \/ solution.total_distance < before.total_distance
           \/ solution.total_cost < before.total_cost

(***************************************************************************)
(* Properties of OrOpt: the move evaluated and the move applied.           *)
(***************************************************************************)
\* the move _relocate_segments has applied
MoveApplied == valid_moves(before, instance)[ret]

\* C26: for every Or-opt move within a route that is applied, the node
\* sequence of the route after _apply_segment_move is the sequence that
\* _evaluate_intra_route_segment_move built and found feasible for that
\* move; in particular the route begins and ends with a depot.
C26_AppliedAsEvaluated ==
    (wpc = "moved" /\ ret >= 1) =>
        (MoveApplied.type = "intra_route" =>
            LET nodes == solution.routes[MoveApplied.source_route_idx].nodes
            IN  /\ nodes = MoveApplied.evaluated[1]
                /\ nodes[1] \in DepotIds
                /\ nodes[Len(nodes)] \in DepotIds)

(***************************************************************************)
(* Properties of Exchange.                                                 *)
(***************************************************************************)
\* every route is feasible and its cached fields are those Route.evaluate
\* leaves
CostsFromRouteEvaluate(sol, inst) ==
    \A r \in 1..Len(sol.routes) :
        /\ sol.routes[r].is_feasible
        /\ sol.routes[r] = RouteEvaluate(sol.routes[r], inst)

\* the improvements, and the types, of the moves
ImprovementsOf(moves) == {moves[k].improvement : k \in 1..Len(moves)}

TypesOf(moves) == {moves[k].type : k \in 1..Len(moves)}

\* C29: for a solution whose routes are all feasible and whose cached route
\* costs come from Route.evaluate, Exchange.local_search returns False and
\* leaves every route unchanged: no swap of customers has improvement > 0.
C29_ExchangeNeverImproves ==
    (wpc = "returned" /\ CostsFromRouteEvaluate(before, instance)) =>
        /\ ret = 0
        /\ solution = before
        /\ \A i \in ImprovementsOf(valid_exchange_moves(before, instance)) :
               i <= 0

\* C29 witness: local_search has returned on two feasible routes with
\* charging costs between which a swap of customers is feasible
C29_Witness ==
    /\ wpc = "returned"
    /\ CostsFromRouteEvaluate(before, instance)
    /\ Len(before.routes) = 2
    /\ before.routes[1].total_cost > 0
    /\ before.routes[2].total_cost > 0
    /\ "inter_route" \in TypesOf(valid_exchange_moves(before, instance))

(***************************************************************************)
(* Properties of DepotReassignment.                                        *)
(***************************************************************************)
\* every route is feasible, by its cached flag and by Route.evaluate
AllRoutesFeasible(sol, inst) ==
    \A r \in 1..Len(sol.routes) :
        /\ sol.routes[r].is_feasible
        /\ RouteEvaluate(sol.routes[r], inst).is_feasible

\* C30: for a solution whose routes are all feasible
\* DepotReassignment.perturbation returns a solution whose routes have the
\* node sequences and the charging decisions of the input, whatever the
\* number of depots.
C30_ReassignmentRolledBack ==
    (wpc = "returned" /\ AllRoutesFeasible(before, instance)) =>
        /\ Len(solution.routes) = Len(before.routes)
        /\ \A r \in 1..Len(before.routes) :
               /\ solution.routes[r].nodes = before.routes[r].nodes
               /\ solution.routes[r].charging_decisions
                    = before.routes[r].charging_decisions

\* C30 witness: the perturbation has returned on two or more feasible
\* routes of an instance of several depots, one of them with customers and
\* a charging decision at the depot
C30_Witness ==
    /\ wpc = "returned"
    /\ AllRoutesFeasible(before, instance)
    /\ Len(before.routes) >= 2
    /\ Len(instance.depots) >= 2
    /\ \E r \in 1..Len(before.routes) :
           /\ Len(before.routes[r].nodes) >= 3
           /\ 0 \in DOMAIN before.routes[r].charging_decisions
====
